---------------------------- MODULE Spec2Model ----------------------------
(***************************************************************************)
(* Post-extraction reconciliation pipeline of the title abstractor:        *)
(* inventory deduplication, document deduplication, chronological          *)
(* analysis, legal-description comparison, relationship detection and      *)
(* chain building.  Every stage is a function over in-memory lists; each   *)
(* has its own specification whose initial states draw the stage's input   *)
(* from bounded sets and whose actions apply the stage.                    *)
(*                                                                         *)
(* Python strings are modelled as sequences of one-character strings, so   *)
(* that lower(), strip(), split(), substring tests and lexicographic       *)
(* comparison are computed rather than assumed.  None and the empty        *)
(* string are both the empty sequence where the code tests truthiness;     *)
(* an absent (None) page number is 0, which the code also treats as        *)
(* absent.                                                                 *)
(***************************************************************************)
EXTENDS Integers, Sequences, FiniteSets, TLC

VARIABLES
    inventory,      \* deduplicate_inventory: the input list
    inv_unique,     \* deduplicate_inventory: unique_docs, as input positions
    inv_pc,         \* "start" before the call, "done" after it
    desc_a,         \* compare: the first parsed description
    desc_b,         \* compare: the second parsed description
    cmp_result,     \* compare: the value returned
    cmp_pc,         \* "start" before the call, "done" after it
    documents,      \* deduplicate_documents: the list passed to the call
    doc_unique,     \* deduplicate_documents: the list the last call returned
    doc_merged_into,\* per document of the last call: the record it was merged into
    doc_merges,     \* the number of _merge_documents calls of each call so far
    doc_pc,         \* "start", "once" after one call, "twice" after two
    mrg_existing,   \* _merge_documents: the accepted record
    mrg_notes,      \* the accepted record's first notes, then each duplicate's
    mrg_before,     \* the accepted record's notes before the last call
    ana_documents,  \* analyze_chain: the input list
    ana_sorted,     \* analyze_chain: the returned list, as input positions
    ana_compared,   \* legalDescriptionComparison of each returned document
    ana_warnings,   \* analyze_chain: the returned warnings
    ana_pc,         \* "start" before the call, "done" after it
    chn_documents,  \* the documents given to the detector and the builder
    chn_data,       \* what analyze_all_documents returned, <<>> before it
    bld_issues,     \* ChainBuilder.issues
    bld_returned,   \* what each call of build_chains returned
    bld_error,      \* the exception that ended a call of build_chains, "" for none
    chn_pc,         \* "start", then "analyzed"
    ext_inventory,  \* process_pdf: the inventory of pass 1
    all_documents,  \* process_pdf: the records pass 2 has appended
    ext_i,          \* the 1-based position of pass 2 in the inventory
    ext_attempt,    \* _extract_document_detail: attempt
    ext_responses,  \* per entry handed to pass 2: what each attempt received
    ext_pc,         \* "inventory", "extract", "attempt", "done" or "raised"
    nm_name1,       \* _names_match: the grantee name as extracted
    nm_name2,       \* _names_match: the grantor name as extracted
    nm_result,      \* _names_match: the value returned
    nm_pc,          \* "start" before the call, "done" after it
    dk_date1,       \* the first record date string
    dk_date2,       \* the second record date string
    dk_parsed,      \* _parse_date of the two strings
    dk_keys,        \* _date_sort_key of the two strings
    dk_pc           \* "start" before the calls, "done" after them

invVars == <<inventory, inv_unique, inv_pc>>
cmpVars == <<desc_a, desc_b, cmp_result, cmp_pc>>
docVars == <<documents, doc_unique, doc_merged_into, doc_merges, doc_pc>>
mrgVars == <<mrg_existing, mrg_notes, mrg_before>>
anaVars == <<ana_documents, ana_sorted, ana_compared, ana_warnings, ana_pc>>
chnVars == <<chn_documents, chn_data, bld_issues, bld_returned, bld_error, chn_pc>>
extVars == <<ext_inventory, all_documents, ext_i, ext_attempt, ext_responses, ext_pc>>
nmVars == <<nm_name1, nm_name2, nm_result, nm_pc>>
dkVars == <<dk_date1, dk_date2, dk_parsed, dk_keys, dk_pc>>

vars == <<invVars, cmpVars, docVars, mrgVars, anaVars, chnVars, extVars, nmVars, dkVars>>

\* a component that a specification does not exercise stays idle
IdleInventory == inventory = <<>> /\ inv_unique = <<>> /\ inv_pc = "idle"
IdleCompare ==
    desc_a = <<>> /\ desc_b = <<>> /\ cmp_result = "" /\ cmp_pc = "idle"
IdleDocuments ==
    /\ documents = <<>> /\ doc_unique = <<>> /\ doc_merged_into = <<>>
    /\ doc_merges = <<>> /\ doc_pc = "idle"
IdleMerge == mrg_existing = <<>> /\ mrg_notes = <<>> /\ mrg_before = <<>>
IdleAnalyze ==
    /\ ana_documents = <<>> /\ ana_sorted = <<>> /\ ana_compared = <<>>
    /\ ana_warnings = <<>> /\ ana_pc = "idle"
IdleChains ==
    /\ chn_documents = <<>> /\ chn_data = <<>> /\ bld_issues = <<>>
    /\ bld_returned = <<>> /\ bld_error = "" /\ chn_pc = "idle"

IdleExtract ==
    /\ ext_inventory = <<>> /\ all_documents = <<>> /\ ext_i = 0
    /\ ext_attempt = 0 /\ ext_responses = <<>> /\ ext_pc = "idle"

IdleNames ==
    nm_name1 = <<>> /\ nm_name2 = <<>> /\ nm_result = FALSE /\ nm_pc = "idle"

IdleDates ==
    dk_date1 = <<>> /\ dk_date2 = <<>> /\ dk_parsed = <<>> /\ dk_keys = <<>> /\ dk_pc = "idle"

Idle(component) ==
    /\ component = "inventory" \/ IdleInventory
    /\ component = "compare" \/ IdleCompare
    /\ component = "documents" \/ IdleDocuments
    /\ component = "merge" \/ IdleMerge
    /\ component = "analyze" \/ IdleAnalyze
    /\ component = "chains" \/ IdleChains
    /\ component = "extract" \/ IdleExtract
    /\ component = "names" \/ IdleNames
    /\ component = "dates" \/ IdleDates

-----------------------------------------------------------------------------
(* Strings                                                                 *)

UpperCase == <<"A","B","C","D","E","F","G","H","I","J","K","L","M",
               "N","O","P","Q","R","S","T","U","V","W","X","Y","Z">>

LowerCase == <<"a","b","c","d","e","f","g","h","i","j","k","l","m",
               "n","o","p","q","r","s","t","u","v","w","x","y","z">>

Digits == <<"0","1","2","3","4","5","6","7","8","9">>

\* str.lower() on one character
LowerChar(c) ==
    IF \E k \in 1..26 : UpperCase[k] = c
    THEN LowerCase[CHOOSE k \in 1..26 : UpperCase[k] = c]
    ELSE c

\* str.lower()
Lower(s) == [k \in 1..Len(s) |-> LowerChar(s[k])]

IsSpace(c) == c \in {" ", "\t", "\n"}

RECURSIVE LStrip(_)
LStrip(s) == IF s # <<>> /\ IsSpace(Head(s)) THEN LStrip(Tail(s)) ELSE s

RECURSIVE RStrip(_)
RStrip(s) ==
    IF s # <<>> /\ IsSpace(s[Len(s)]) THEN RStrip(SubSeq(s, 1, Len(s) - 1)) ELSE s

\* str.strip()
Strip(s) == RStrip(LStrip(s))

\* the sequences of length at most n over S
SeqsUpTo(S, n) == UNION {[1..k -> S] : k \in 0..n}

-----------------------------------------------------------------------------
(* Inventory deduplication (pass 1)                                        *)

MaxInventory == 3
MaxPage == 3

str_Deed     == <<"D","e","e","d">>
str_deed_sp  == <<"d","e","e","d"," ">>
str_Mortgage == <<"M","o","r","t","g","a","g","e">>

InventoryTypes == {str_Deed, str_deed_sp, str_Mortgage}

\* an inventory entry: its type and pages.start / pages.end (0: absent)
InventoryEntries ==
    {e \in [type : InventoryTypes, start : 0..MaxPage, end : 0..MaxPage] :
        e.start = 0 \/ e.end = 0 \/ e.start <= e.end}

Max(a, b) == IF a >= b THEN a ELSE b
Min(a, b) == IF a <= b THEN a ELSE b

\* mutant: the overlap must exceed half of both ranges instead of either
_is_likely_same_document_inventory_both(doc1, doc2) ==
    LET overlap == ~(doc1.end < doc2.start \/ doc2.end < doc1.start)
        overlap_pages == Min(doc1.end, doc2.end) - Max(doc1.start, doc2.start) + 1
        range1_pages == doc1.end - doc1.start + 1
        range2_pages == doc2.end - doc2.start + 1
    IN  IF Strip(Lower(doc1.type)) # Strip(Lower(doc2.type)) THEN FALSE
        ELSE IF doc1.start = 0 \/ doc1.end = 0 \/ doc2.start = 0 \/ doc2.end = 0
        THEN FALSE
        ELSE /\ overlap
             /\ (range1_pages > 0 /\ 2 * overlap_pages > range1_pages)
             /\ (range2_pages > 0 /\ 2 * overlap_pages > range2_pages)

_is_likely_same_document_inventory(doc1, doc2) ==
    LET type1 == Strip(Lower(doc1.type))
        type2 == Strip(Lower(doc2.type))
        start1 == doc1.start
        end1 == doc1.end
        start2 == doc2.start
        end2 == doc2.end
        overlap == ~(end1 < start2 \/ end2 < start1)
        overlap_pages == Min(end1, end2) - Max(start1, start2) + 1
        range1_pages == end1 - start1 + 1
        range2_pages == end2 - start2 + 1
    IN  IF type1 # type2 THEN FALSE
        ELSE IF start1 = 0 \/ end1 = 0 \/ start2 = 0 \/ end2 = 0 THEN FALSE
        ELSE /\ overlap
             \* overlap_pages / range_pages > 0.5, with range_pages > 0
             /\ \/ (range1_pages > 0 /\ 2 * overlap_pages > range1_pages)
                \/ (range2_pages > 0 /\ 2 * overlap_pages > range2_pages)

\* mutant: an entry counts as unpaged only when both pages are absent
MissingPages_both(doc) == doc.start = 0 /\ doc.end = 0

\* the entry has no usable page range: not start_page or not end_page
MissingPages(doc) == doc.start = 0 \/ doc.end = 0

\* f"{doc_type}|{start_page}|{end_page}"
exact_signature(doc) == <<Strip(Lower(doc.type)), doc.start, doc.end>>

\* the for loop of deduplicate_inventory from entry i on; unique_docs holds
\* the positions in inv of the entries kept so far
RECURSIVE InventoryLoop(_, _, _, _)
InventoryLoop(inv, i, unique_docs, seen_signatures) ==
    IF i > Len(inv) THEN unique_docs
    ELSE LET doc == inv[i] IN
         IF MissingPages(doc)
         THEN InventoryLoop(inv, i + 1, Append(unique_docs, i), seen_signatures)
         ELSE IF exact_signature(doc) \in seen_signatures
         THEN InventoryLoop(inv, i + 1, unique_docs, seen_signatures)
         ELSE IF \E k \in 1..Len(unique_docs) :
                     _is_likely_same_document_inventory(doc, inv[unique_docs[k]])
         THEN InventoryLoop(inv, i + 1, unique_docs, seen_signatures)
         ELSE InventoryLoop(inv, i + 1, Append(unique_docs, i),
                            seen_signatures \cup {exact_signature(doc)})

\* mutant: a duplicate replaces the entry kept for its group (the last
\* occurrence is kept instead of the first)
RECURSIVE InventoryLoopKeepLast(_, _, _)
InventoryLoopKeepLast(inv, i, unique_docs) ==
    IF i > Len(inv) THEN unique_docs
    ELSE LET doc == inv[i]
             dup(k) == \/ exact_signature(doc) = exact_signature(inv[unique_docs[k]])
                       \/ _is_likely_same_document_inventory(doc, inv[unique_docs[k]])
         IN
         IF MissingPages(doc) \/ ~\E k \in 1..Len(unique_docs) : dup(k)
         THEN InventoryLoopKeepLast(inv, i + 1, Append(unique_docs, i))
         ELSE InventoryLoopKeepLast(inv, i + 1,
                  [unique_docs EXCEPT
                      ![CHOOSE k \in 1..Len(unique_docs) :
                            dup(k) /\ \A m \in 1..(k - 1) : ~dup(m)] = i])

deduplicate_inventory_keep_last(inv) == InventoryLoopKeepLast(inv, 1, <<>>)

\* deduplicate_inventory: the positions of the entries it returns, in order
deduplicate_inventory(inv) == InventoryLoop(inv, 1, <<>>, {})

InitInventory ==
    /\ inventory \in SeqsUpTo(InventoryEntries, MaxInventory)
    /\ inv_unique = <<>>
    /\ inv_pc = "start"
    /\ Idle("inventory")

DeduplicateInventory ==
    /\ inv_pc = "start"
    /\ inv_unique' = deduplicate_inventory(inventory)
    /\ inv_pc' = "done"
    /\ UNCHANGED <<inventory, cmpVars, docVars, mrgVars, anaVars, chnVars, extVars, nmVars, dkVars>>

NextInventory == DeduplicateInventory

SpecInventory == InitInventory /\ [][NextInventory]_vars

\* the entries deduplicate_inventory returns
InventoryOutput == [k \in 1..Len(inv_unique) |-> inventory[inv_unique[k]]]

InventoryKept == {inv_unique[k] : k \in 1..Len(inv_unique)}

NormalizedType(e) == Strip(Lower(e.type))

HasBothPages(e) == e.start # 0 /\ e.end # 0

\* the number of pages two page ranges share
SharedPages(a, b) ==
    Max(0, Min(a.end, b.end) - Max(a.start, b.start) + 1)

\* the shared pages are more than half of a's range or of b's range
OverlapsMoreThanHalf(a, b) ==
    \/ 2 * SharedPages(a, b) > a.end - a.start + 1
    \/ 2 * SharedPages(a, b) > b.end - b.start + 1

\* two entries of one duplicate group: same type and same pages, or same
\* type and page ranges overlapping by more than half of either
DuplicateEntries(a, b) ==
    /\ HasBothPages(a) /\ HasBothPages(b)
    /\ NormalizedType(a) = NormalizedType(b)
    /\ \/ (a.start = b.start /\ a.end = b.end)
       \/ OverlapsMoreThanHalf(a, b)

\* C8: the output of deduplicate_inventory is a subsequence of its input
\* (positions of the input, strictly increasing, so no entry twice and the
\* input order kept), and every dropped entry has a duplicate kept before
\* it, so the kept member of a duplicate group is its first occurrence.
C8_Subsequence ==
    inv_pc = "done" =>
        /\ \A k \in 1..Len(inv_unique) : inv_unique[k] \in 1..Len(inventory)
        /\ \A k \in 1..Len(inv_unique) - 1 : inv_unique[k] < inv_unique[k + 1]
        /\ \A j \in 1..Len(inventory) :
              j \notin InventoryKept =>
                  \E i \in InventoryKept :
                      i < j /\ DuplicateEntries(inventory[i], inventory[j])
        /\ (inventory # <<>> => 1 \in InventoryKept)

C8_Witness ==
    /\ inv_pc = "done"
    /\ Len(inventory) = 3
    /\ inv_unique = <<1, 3>>
    /\ inventory[1] # inventory[2]

\* C9: no two kept entries that both have a start and an end page and the
\* same normalized type overlap by more than half of either range, nor
\* share a (type, start, end) signature.
C9_NoOverlapKept ==
    inv_pc = "done" =>
        \A a, b \in InventoryKept :
            (/\ a # b
             /\ HasBothPages(inventory[a]) /\ HasBothPages(inventory[b])
             /\ NormalizedType(inventory[a]) = NormalizedType(inventory[b]))
            => /\ ~OverlapsMoreThanHalf(inventory[a], inventory[b])
               /\ <<inventory[a].start, inventory[a].end>>
                      # <<inventory[b].start, inventory[b].end>>

\* two kept entries of the same type that share exactly half of each range,
\* and a third one dropped for overlapping the first by more than half
C9_Witness ==
    /\ inv_pc = "done"
    /\ Len(inventory) = 3
    /\ inv_unique = <<1, 2>>
    /\ inventory[1].type # inventory[2].type
    /\ NormalizedType(inventory[1]) = NormalizedType(inventory[2])
    /\ <<inventory[1].start, inventory[1].end>> = <<1, 2>>
    /\ <<inventory[2].start, inventory[2].end>> = <<2, 3>>
    /\ <<inventory[3].start, inventory[3].end>> = <<1, 1>>

PagedPositions == {i \in 1..Len(inventory) : HasBothPages(inventory[i])}

\* the entries of the input that have both pages, in input order
PagedInput == SelectSeq(inventory, HasBothPages)

\* C10: an entry missing its start or its end page is always kept, and it
\* never causes another entry to be dropped: the kept entries that have
\* both pages are those deduplicate_inventory keeps when the entries with a
\* missing page are taken out of the input.
C10_MissingPagesKept ==
    inv_pc = "done" =>
        /\ \A i \in 1..Len(inventory) :
              ~HasBothPages(inventory[i]) => i \in InventoryKept
        /\ SelectSeq(InventoryOutput, HasBothPages)
             = [k \in 1..Len(deduplicate_inventory(PagedInput)) |->
                    PagedInput[deduplicate_inventory(PagedInput)[k]]]

\* an entry without a start page stands between two duplicates and has the
\* type and end page of the first: it is kept, the later duplicate dropped
C10_Witness ==
    /\ inv_pc = "done"
    /\ Len(inventory) = 3
    /\ inv_unique = <<1, 2>>
    /\ inventory[2].start = 0 /\ inventory[2].end = inventory[1].end
    /\ inventory[2].type = inventory[1].type
    /\ inventory[3] = inventory[1]
    /\ HasBothPages(inventory[1])

-----------------------------------------------------------------------------
(* Legal description comparison                                            *)
(*                                                                         *)
(* A parsed description, as LegalDescriptionParser.parse returns it, with  *)
(* the fields compare reads: metes_bounds is <<>> (None) or                *)
(* <<starting_point>>, deed_reference is <<>> (None) or <<book, page>>,    *)
(* lot_numbers is the set of the lot numbers, and an absent string is the  *)
(* empty sequence.                                                         *)

MaxLot == 3
MaxPopulated == 2

str_iron_pin   == <<"a", "n", " ", "i", "r", "o", "n", " ", "p", "i", "n">>
str_Iron_Pin   == <<"A", "n", " ", "I", "r", "o", "n", " ", "P", "i", "n", " ">>
str_a_stone    == <<"a", " ", "s", "t", "o", "n", "e">>
str_12         == <<"1", "2">>
str_7          == <<"7">>
str_8          == <<"8">>
str_tax_1      == <<"1", "2", "3", "-", "4", "5", "-", "6">>
str_tax_2      == <<"1", "2", "3", "-", "4", "5", "-", "7">>
str_1_Elm_St   == <<"1", " ", "E", "l", "m", " ", "S", "t">>
str_1_ELM_ST   == <<"1", " ", "E", "L", "M", " ", "S", "T">>
str_9_Oak_Rd   == <<"9", " ", "O", "a", "k", " ", "R", "d">>
str_Oak_Park   == <<"O", "a", "k", " ", "P", "a", "r", "k">>
str_OAK_PARK   == <<"O", "A", "K", " ", "P", "A", "R", "K">>
str_Elm_Manor  == <<"E", "l", "m", " ", "M", "a", "n", "o", "r">>

MetesValues == {<<>>, << <<>> >>, <<str_iron_pin>>, <<str_Iron_Pin>>, <<str_a_stone>>}
DeedReferenceValues == {<<>>, <<str_12, str_7>>, <<str_12, str_8>>}
TaxParcelValues == {<<>>, str_tax_1, str_tax_2}
LotValues == SUBSET (1..MaxLot)
AddressValues == {<<>>, str_1_Elm_St, str_1_ELM_ST, str_9_Oak_Rd}
SubdivisionValues == {<<>>, str_Oak_Park, str_OAK_PARK, str_Elm_Manor}

\* how many of the six identifier kinds a parsed description has
Populated(d) ==
    (IF d.metes_bounds # <<>> THEN 1 ELSE 0)
    + (IF d.deed_reference # <<>> THEN 1 ELSE 0)
    + (IF d.tax_parcel_id # <<>> THEN 1 ELSE 0)
    + (IF d.lot_numbers # {} THEN 1 ELSE 0)
    + (IF d.street_address # <<>> THEN 1 ELSE 0)
    + (IF d.subdivision # <<>> THEN 1 ELSE 0)

ParsedDescriptions ==
    {d \in [metes_bounds : MetesValues, deed_reference : DeedReferenceValues,
            tax_parcel_id : TaxParcelValues, lot_numbers : LotValues,
            street_address : AddressValues, subdivision : SubdivisionValues] :
        Populated(d) <= MaxPopulated}

\* mutant: a proper superset of lots is reported as a partial overlap
CompareLots_no_superset(lots_a, lots_b) ==
    IF lots_a = lots_b THEN "SAME"
    ELSE IF lots_a \subseteq lots_b THEN "SUBSET"
    ELSE IF lots_a \cap lots_b # {} THEN "PARTIAL_OVERLAP"
    ELSE "DIFFERENT"

\* priority 4: both sides have lot numbers
CompareLots(lots_a, lots_b) ==
    IF lots_a = lots_b THEN "SAME"
    ELSE IF lots_a \subseteq lots_b THEN "SUBSET"
    ELSE IF lots_b \subseteq lots_a THEN "SUPERSET"
    ELSE IF lots_a \cap lots_b # {} THEN "PARTIAL_OVERLAP"
    ELSE "DIFFERENT"

\* mutant: the subdivision names are compared without asking whether
\* either side has one
CompareSubdivision_unguarded(sub_a, sub_b) ==
    IF Strip(Lower(sub_a)) = Strip(Lower(sub_b)) THEN "SAME" ELSE "DIFFERENT"

\* priority 6 and the final default
CompareSubdivision(sub_a, sub_b) ==
    IF sub_a # <<>> /\ sub_b # <<>>
    THEN IF Strip(Lower(sub_a)) = Strip(Lower(sub_b)) THEN "SAME" ELSE "DIFFERENT"
    ELSE "DIFFERENT"

\* priority 1: both sides have metes and bounds
CompareMetes(mb_a, mb_b) ==
    LET start_a == mb_a[1]
        start_b == mb_b[1]
    IN  IF /\ start_a # <<>> /\ start_b # <<>>
           /\ Strip(Lower(start_a)) = Strip(Lower(start_b))
        THEN "SAME"
        ELSE "DIFFERENT"

\* mutant: lot numbers are compared before tax parcel ids
compare_lots_first(a, b) ==
    IF a.metes_bounds # <<>> /\ b.metes_bounds # <<>>
    THEN CompareMetes(a.metes_bounds, b.metes_bounds)
    ELSE IF /\ a.deed_reference # <<>> /\ b.deed_reference # <<>>
            /\ a.deed_reference[1] = b.deed_reference[1]
            /\ a.deed_reference[2] = b.deed_reference[2]
    THEN "SAME"
    ELSE IF a.lot_numbers # {} /\ b.lot_numbers # {}
    THEN CompareLots(a.lot_numbers, b.lot_numbers)
    ELSE IF a.tax_parcel_id # <<>> /\ b.tax_parcel_id # <<>>
    THEN IF a.tax_parcel_id = b.tax_parcel_id THEN "SAME" ELSE "DIFFERENT"
    ELSE IF a.street_address # <<>> /\ b.street_address # <<>>
    THEN IF Strip(Lower(a.street_address)) = Strip(Lower(b.street_address))
         THEN "SAME" ELSE "DIFFERENT"
    ELSE CompareSubdivision(a.subdivision, b.subdivision)

\* LegalDescriptionParser.compare
compare(a, b) ==
    IF a.metes_bounds # <<>> /\ b.metes_bounds # <<>>
    THEN CompareMetes(a.metes_bounds, b.metes_bounds)
    \* matching deed references return; differing ones fall through
    ELSE IF /\ a.deed_reference # <<>> /\ b.deed_reference # <<>>
            /\ a.deed_reference[1] = b.deed_reference[1]
            /\ a.deed_reference[2] = b.deed_reference[2]
    THEN "SAME"
    ELSE IF a.tax_parcel_id # <<>> /\ b.tax_parcel_id # <<>>
    THEN IF a.tax_parcel_id = b.tax_parcel_id THEN "SAME" ELSE "DIFFERENT"
    ELSE IF a.lot_numbers # {} /\ b.lot_numbers # {}
    THEN CompareLots(a.lot_numbers, b.lot_numbers)
    ELSE IF a.street_address # <<>> /\ b.street_address # <<>>
    THEN IF Strip(Lower(a.street_address)) = Strip(Lower(b.street_address))
         THEN "SAME" ELSE "DIFFERENT"
    ELSE CompareSubdivision(a.subdivision, b.subdivision)

InitCompare ==
    /\ desc_a \in ParsedDescriptions
    /\ desc_b \in ParsedDescriptions
    /\ cmp_result = ""
    /\ cmp_pc = "start"
    /\ Idle("compare")

Compare ==
    /\ cmp_pc = "start"
    /\ cmp_result' = compare(desc_a, desc_b)
    /\ cmp_pc' = "done"
    /\ UNCHANGED <<desc_a, desc_b, invVars, docVars, mrgVars, anaVars, chnVars, extVars, nmVars, dkVars>>

NextCompare == Compare

SpecCompare == InitCompare /\ [][NextCompare]_vars

BothHaveMetes == desc_a.metes_bounds # <<>> /\ desc_b.metes_bounds # <<>>
BothHaveDeedReference == desc_a.deed_reference # <<>> /\ desc_b.deed_reference # <<>>
BothHaveTaxParcel == desc_a.tax_parcel_id # <<>> /\ desc_b.tax_parcel_id # <<>>
BothHaveLots == desc_a.lot_numbers # {} /\ desc_b.lot_numbers # {}
BothHaveAddress == desc_a.street_address # <<>> /\ desc_b.street_address # <<>>
BothHaveSubdivision == desc_a.subdivision # <<>> /\ desc_b.subdivision # <<>>

\* C4: when for each of the six identifier kinds at least one side lacks
\* it, compare returns DIFFERENT.
C4_Conservative ==
    (/\ cmp_pc = "done"
     /\ ~BothHaveMetes /\ ~BothHaveDeedReference /\ ~BothHaveTaxParcel
     /\ ~BothHaveLots /\ ~BothHaveAddress /\ ~BothHaveSubdivision)
    => cmp_result = "DIFFERENT"

\* both sides are populated, with different kinds, and nothing is comparable
C4_Witness ==
    /\ cmp_pc = "done"
    /\ Populated(desc_a) = 2 /\ Populated(desc_b) = 2
    /\ desc_a.tax_parcel_id # <<>> /\ desc_a.lot_numbers # {}
    /\ desc_b.subdivision # <<>> /\ desc_b.street_address # <<>>
    /\ cmp_result = "DIFFERENT"

C15_DeedReferenceDecides ==
    (cmp_pc = "done" /\ BothHaveDeedReference /\ ~BothHaveMetes)
    => (cmp_result = "SAME" <=>
            /\ desc_a.deed_reference[1] = desc_b.deed_reference[1]
            /\ desc_a.deed_reference[2] = desc_b.deed_reference[2])

\* the relationship seen from the other document
Opposite(relationship) ==
    IF relationship = "SUBSET" THEN "SUPERSET"
    ELSE IF relationship = "SUPERSET" THEN "SUBSET"
    ELSE relationship

\* C29: compare is symmetric up to direction: for all parsed descriptions
\* a and b, compare(a, b) is SAME, PARTIAL_OVERLAP or DIFFERENT exactly
\* when compare(b, a) is the same value, and compare(a, b) is SUBSET
\* exactly when compare(b, a) is SUPERSET
C29_CompareSymmetric ==
    cmp_pc = "done" =>
        /\ cmp_result \in {"SAME", "SUBSET", "SUPERSET", "PARTIAL_OVERLAP", "DIFFERENT"}
        /\ compare(desc_b, desc_a) = Opposite(cmp_result)

\* the lots of a are some of the lots of b, and the two descriptions
\* differ in another field that only one of them has
C29_Witness ==
    /\ cmp_pc = "done"
    /\ cmp_result = "SUBSET"
    /\ compare(desc_b, desc_a) = "SUPERSET"
    /\ desc_a.lot_numbers # desc_b.lot_numbers
    /\ desc_a.deed_reference # <<>> /\ desc_b.deed_reference = <<>>

-----------------------------------------------------------------------------
(* Document deduplication (deduplication.py, pass 2)                       *)
(*                                                                         *)
(* An extracted document is a record of the fields the pass reads:         *)
(* recording (recording.locationInstrumentNumber), documentType,           *)
(* recordDate (dates.recordDate), from and to (parties.from, parties.to),  *)
(* legalDescription (property.legalDescription), notes, pageLocation and   *)
(* allPageLocations.  A page dict is [start, end], 0 for a missing key;    *)
(* the dict with both missing is the empty dict.  pageLocation.note is     *)
(* modelled by the list of page ranges that the code formats into it, and  *)
(* allPageLocations is <<>> while the key is absent (the code never        *)
(* stores an empty list there).                                            *)

MaxDocuments == 3
MaxVariation == 1
MaxMerges == 3

str_B1 == <<"B","1">>
str_b1_sp == <<"b","1"," ">>
str_B2 == <<"B","2">>
str_QC_Deed == <<"Q","C"," "," ","D","e","e","d">>
str_2001 == <<"2","0","0","1">>
str_2002 == <<"2","0","0","2">>
str_Al == <<"A","l">>
str_AL == <<"A","L">>
str_Bo == <<"B","o">>
str_Cy == <<"C","y">>
str_Lot_1 == <<"L","o","t"," ","1">>
str_Lot_2 == <<" ","L","o","t"," ","2">>
str_see_p2 == <<"s","e","e"," ","p","2">>
str_ok == <<"o","k">>
str_Released == <<"R","e","l","e","a","s","e","d">>
str_PAID == <<"P","A","I","D"," ","i","n"," ","f","u","l","l">>

\* s.split() followed by ' '.join: runs of whitespace become one space
RECURSIVE JoinSplit(_)
JoinSplit(s) ==
    IF s = <<>> THEN <<>>
    ELSE IF IsSpace(Head(s))
    THEN LET rest == LStrip(s)
         IN  IF rest = <<>> THEN <<>> ELSE <<" ">> \o JoinSplit(rest)
    ELSE <<Head(s)>> \o JoinSplit(Tail(s))

_normalize_string(s) == IF s = <<>> THEN <<>> ELSE JoinSplit(Strip(Lower(s)))

\* keyword in s
Contains(s, keyword) ==
    \E i \in 0..(Len(s) - Len(keyword)) : SubSeq(s, i + 1, i + Len(keyword)) = keyword

kw_deed == <<"d","e","e","d">>
kw_mortgage == <<"m","o","r","t","g","a","g","e">>
kw_satisfaction == <<"s","a","t","i","s","f","a","c","t","i","o","n">>
kw_discharge == <<"d","i","s","c","h","a","r","g","e">>
kw_judgment == <<"j","u","d","g","m","e","n","t">>
kw_lien == <<"l","i","e","n">>

_normalize_doc_type(doc_type) ==
    LET t == Strip(Lower(doc_type))
    IN  IF Contains(t, kw_deed) THEN kw_deed
        ELSE IF Contains(t, kw_mortgage) THEN kw_mortgage
        ELSE IF Contains(t, kw_satisfaction) \/ Contains(t, kw_discharge)
        THEN kw_satisfaction
        ELSE IF Contains(t, kw_judgment) THEN kw_judgment
        ELSE IF Contains(t, kw_lien) THEN kw_lien
        ELSE t

-----------------------------------------------------------------------------
(* Double-precision arithmetic                                             *)
(*                                                                         *)
(* The similarity score is computed in Python floats (IEEE 754 binary64,   *)
(* round to nearest, ties to even) and compared with 0.85, and sums of the *)
(* weights that are 0.85 in exact arithmetic land on either side of the    *)
(* threshold in doubles.  The operations are therefore modelled bit for    *)
(* bit: a natural number is a little-endian sequence of limbs in base      *)
(* 2^15, and a non-negative double is <<m, e>>, standing for m * 2^e, with *)
(* m = 0 or 2^52 <= m < 2^53.                                              *)

LimbBase == 32768
LimbBits == 15
MantissaBits == 53

RECURSIVE BigNorm(_)
BigNorm(a) ==
    IF a # <<>> /\ a[Len(a)] = 0 THEN BigNorm(SubSeq(a, 1, Len(a) - 1)) ELSE a

BigFromInt(n) ==
    BigNorm(<<n % LimbBase, (n \div LimbBase) % LimbBase,
              n \div (LimbBase * LimbBase)>>)

BigLimb(a, k) == IF k <= Len(a) THEN a[k] ELSE 0

RECURSIVE BigAddFrom(_, _, _, _)
BigAddFrom(a, b, k, carry) ==
    IF k > Len(a) /\ k > Len(b)
    THEN IF carry = 0 THEN <<>> ELSE <<carry>>
    ELSE LET t == BigLimb(a, k) + BigLimb(b, k) + carry
         IN  <<t % LimbBase>> \o BigAddFrom(a, b, k + 1, t \div LimbBase)

BigAdd(a, b) == BigAddFrom(a, b, 1, 0)

\* a - b for a >= b
RECURSIVE BigSubFrom(_, _, _, _)
BigSubFrom(a, b, k, borrow) ==
    IF k > Len(a) THEN <<>>
    ELSE LET t == a[k] - BigLimb(b, k) - borrow
         IN  IF t < 0
             THEN <<t + LimbBase>> \o BigSubFrom(a, b, k + 1, 1)
             ELSE <<t>> \o BigSubFrom(a, b, k + 1, 0)

BigSub(a, b) == BigNorm(BigSubFrom(a, b, 1, 0))

\* a < b, both normalized
BigLess(a, b) ==
    IF Len(a) # Len(b) THEN Len(a) < Len(b)
    ELSE \E k \in 1..Len(a) :
            /\ a[k] < b[k]
            /\ \A j \in (k + 1)..Len(a) : a[j] = b[j]

\* a * n for 0 <= n < LimbBase
RECURSIVE BigMulSmallFrom(_, _, _, _)
BigMulSmallFrom(a, n, k, carry) ==
    IF k > Len(a)
    THEN IF carry = 0 THEN <<>> ELSE <<carry>>
    ELSE LET t == a[k] * n + carry
         IN  <<t % LimbBase>> \o BigMulSmallFrom(a, n, k + 1, t \div LimbBase)

BigMulSmall(a, n) == BigNorm(BigMulSmallFrom(a, n, 1, 0))

BigShiftLimbs(a, n) == IF a = <<>> THEN <<>> ELSE [k \in 1..n |-> 0] \o a

RECURSIVE BigMulFrom(_, _, _)
BigMulFrom(a, b, k) ==
    IF k > Len(b) THEN <<>>
    ELSE BigAdd(BigShiftLimbs(BigMulSmall(a, b[k]), k - 1), BigMulFrom(a, b, k + 1))

BigMul(a, b) == BigMulFrom(a, b, 1)

\* a * 2^n
BigShiftLeft(a, n) ==
    BigShiftLimbs(BigMulSmall(a, 2 ^ (n % LimbBits)), n \div LimbBits)

\* floor(a / 2^n): limb k of a onwards, each taking the low bits of the next
RECURSIVE BigShiftRightFrom(_, _, _)
BigShiftRightFrom(a, bits, k) ==
    IF k > Len(a) THEN <<>>
    ELSE <<(a[k] \div (2 ^ bits))
           + (BigLimb(a, k + 1) % (2 ^ bits)) * (2 ^ (LimbBits - bits))>>
         \o BigShiftRightFrom(a, bits, k + 1)

BigShiftRight(a, n) ==
    BigNorm(BigShiftRightFrom(a, n % LimbBits, (n \div LimbBits) + 1))

\* the number of bits of a
BigBitLength(a) ==
    IF a = <<>> THEN 0
    ELSE LimbBits * (Len(a) - 1)
         + (CHOOSE n \in 1..LimbBits : 2 ^ (n - 1) <= a[Len(a)] /\ a[Len(a)] < 2 ^ n)

BigIsOdd(a) == a # <<>> /\ a[1] % 2 = 1

\* the largest q with d * q <= r, for d <= r < d * LimbBase and d with its
\* top limb at least LimbBase / 2: the estimate from the leading limbs is
\* at most 2 too large
BigQuotientEstimate(lead, top) ==
    IF lead \div top >= LimbBase THEN LimbBase - 1 ELSE lead \div top

BigQuotientNear(r, d, est) ==
    CHOOSE q \in {est - 2, est - 1, est} :
        /\ q >= 0
        /\ ~BigLess(r, BigMulSmall(d, q))
        /\ BigLess(r, BigMulSmall(d, q + 1))

BigQuotientDigit(r, d) ==
    BigQuotientNear(r, d,
        BigQuotientEstimate(BigLimb(r, Len(d) + 1) * LimbBase + BigLimb(r, Len(d)),
                            d[Len(d)]))

\* long division of a by d, limb k of a downwards, r the running remainder:
\* <<quotient, remainder>>
RECURSIVE BigDivModFrom(_, _, _, _)
RECURSIVE BigDivModDigit(_, _, _, _)
RECURSIVE BigDivModTake(_, _, _, _, _)

\* the digits below limb k in rec, and digit q for limb k
BigDivModPut(rec, q) == <<rec[1] \o <<q>>, rec[2]>>

BigDivModFrom(a, d, k, r) ==
    IF k = 0 THEN <<<<>>, r>> ELSE BigDivModDigit(a, d, k, BigNorm(<<a[k]>> \o r))

\* r1 the remainder with limb k brought down
BigDivModDigit(a, d, k, r1) ==
    IF BigLess(r1, d)
    THEN BigDivModPut(BigDivModFrom(a, d, k - 1, r1), 0)
    ELSE BigDivModTake(a, d, k, r1, BigQuotientDigit(r1, d))

\* q the digit for limb k
BigDivModTake(a, d, k, r1, q) ==
    BigDivModPut(BigDivModFrom(a, d, k - 1, BigSub(r1, BigMulSmall(d, q))), q)

BigDivModNormalized(res) == <<BigNorm(res[1]), res[2]>>

BigDivMod(a, d) == BigDivModNormalized(BigDivModFrom(a, d, Len(a), <<>>))

FloatZero == << <<>>, 0 >>

\* the double nearest to n * 2^e, ties to even
\* q1 * 2^e, where rounding up may have carried q1 to 2^53
FloatCarry(q1, e) ==
    IF BigBitLength(q1) > MantissaBits THEN <<BigShiftRight(q1, 1), e + 1>>
    ELSE <<q1, e>>

\* q the kept bits, rem the dropped bits, half the weight of half a unit
FloatRoundsUp(q, rem, half) ==
    BigLess(half, rem) \/ (rem = half /\ BigIsOdd(q))

\* q = floor(n / 2^k), k > 0
FloatRoundKept(n, e, k, q) ==
    IF FloatRoundsUp(q, BigSub(n, BigShiftLeft(q, k)), BigShiftLeft(<<1>>, k - 1))
    THEN FloatCarry(BigAdd(q, <<1>>), e + k)
    ELSE <<q, e + k>>

\* k the number of bits of n beyond the mantissa
FloatRoundBits(n, e, k) ==
    IF k <= 0 THEN <<BigShiftLeft(n, 0 - k), e + k>>
    ELSE FloatRoundKept(n, e, k, BigShiftRight(n, k))

FloatRound(n, e) ==
    IF n = <<>> THEN FloatZero
    ELSE FloatRoundBits(n, e, BigBitLength(n) - MantissaBits)

FloatFromInt(n) == FloatRound(BigFromInt(n), 0)

\* x + y with both mantissas brought to exponent e
FloatAddAt(x, y, e) ==
    FloatRound(BigAdd(BigShiftLeft(x[1], x[2] - e), BigShiftLeft(y[1], y[2] - e)), e)

FloatAdd(x, y) ==
    IF x[1] = <<>> THEN y
    ELSE IF y[1] = <<>> THEN x
    ELSE FloatAddAt(x, y, Min(x[2], y[2]))

FloatMul(x, y) == FloatRound(BigMul(x[1], y[1]), x[2] + y[2])

\* x / y for y > 0: the quotient of the mantissas to 56 bits and a sticky
\* bit for the remainder, then rounded
FloatDivRound(qr, e) ==
    FloatRound(BigAdd(BigShiftLeft(qr[1], 1), IF qr[2] = <<>> THEN <<>> ELSE <<1>>), e)

\* the shift by 7 more bits brings the divisor's top limb to 15 bits
FloatDiv(x, y) ==
    IF x[1] = <<>> THEN FloatZero
    ELSE FloatDivRound(BigDivMod(BigShiftLeft(x[1], 55 + 7), BigShiftLeft(y[1], 7)),
                       x[2] - y[2] - 56)

\* x >= y
FloatGe(x, y) ==
    IF y[1] = <<>> THEN TRUE
    ELSE IF x[1] = <<>> THEN FALSE
    ELSE IF x[2] # y[2] THEN x[2] > y[2]
    ELSE ~BigLess(x[1], y[1])

\* a decimal literal num/den, e.g. 0.85 as 85/100
FloatLiteral(num, den) == FloatDiv(FloatFromInt(num), FloatFromInt(den))

\* x > 0
FloatPositive(x) == x[1] # <<>>

\* sum(weights): Python's left-to-right addition, starting from the int 0
RECURSIVE FloatSumFrom(_, _, _)
FloatSumFrom(weights, k, total) ==
    IF k > Len(weights) THEN total
    ELSE IF total[1] = <<>> THEN FloatSumFrom(weights, k + 1, weights[k])
    ELSE FloatSumFrom(weights, k + 1, FloatAdd(total, weights[k]))

FloatSum(weights) == FloatSumFrom(weights, 1, FloatZero)

weight_recording == FloatLiteral(4, 10)
weight_type == FloatLiteral(2, 10)
weight_type_category == FloatLiteral(15, 100)
weight_date == FloatLiteral(15, 100)
weight_parties == FloatLiteral(15, 100)
weight_legal == FloatLiteral(1, 10)
merge_threshold == FloatLiteral(85, 100)

\* difflib.SequenceMatcher.find_longest_match without junk: among the
\* blocks a[i..i+k-1] = b[j..j+k-1] inside a[alo..ahi], b[blo..bhi], the
\* longest, of those the one starting earliest in a, of those the one
\* starting earliest in b; <<0, 0, 0>> when no element matches
LongestBlock(blocks) ==
    IF blocks = {} THEN <<0, 0, 0>>
    ELSE CHOOSE m \in blocks : \A n \in blocks :
            \/ m[3] > n[3]
            \/ m[3] = n[3] /\ m[1] < n[1]
            \/ m[3] = n[3] /\ m[1] = n[1] /\ m[2] <= n[2]

find_longest_match(a, b, alo, ahi, blo, bhi) ==
    LongestBlock({m \in (alo..ahi) \X (blo..bhi) \X (1..(ahi - alo + 1)) :
                     /\ m[1] + m[3] - 1 <= ahi
                     /\ m[2] + m[3] - 1 <= bhi
                     /\ SubSeq(a, m[1], m[1] + m[3] - 1)
                           = SubSeq(b, m[2], m[2] + m[3] - 1)})

\* the total size of get_matching_blocks: the longest block, then the same
\* to its left and to its right
RECURSIVE matching_size(_, _, _, _, _, _)
RECURSIVE matching_around(_, _, _, _, _, _, _)

matching_size(a, b, alo, ahi, blo, bhi) ==
    IF alo > ahi \/ blo > bhi THEN 0
    ELSE matching_around(a, b, alo, ahi, blo, bhi,
                         find_longest_match(a, b, alo, ahi, blo, bhi))

\* m the longest block
matching_around(a, b, alo, ahi, blo, bhi, m) ==
    IF m[3] = 0 THEN 0
    ELSE m[3]
         + matching_size(a, b, alo, m[1] - 1, blo, m[2] - 1)
         + matching_size(a, b, m[1] + m[3], ahi, m[2] + m[3], bhi)

\* SequenceMatcher(None, a, b).ratio() = 2.0 * matches / length; the popular
\* element heuristic (autojunk) needs 200 elements and the [:500] slice
\* needs 500, and the descriptions here are shorter
ratio(a, b) ==
    IF Len(a) + Len(b) = 0 THEN FloatFromInt(1)
    ELSE FloatDiv(FloatMul(FloatFromInt(2),
                           FloatFromInt(matching_size(a, b, 1, Len(a), 1, Len(b)))),
                  FloatFromInt(Len(a) + Len(b)))

NormalizedSet(names) == {_normalize_string(names[k]) : k \in 1..Len(names)}

\* the fields of a document that the score reads
ScoredFields(doc) ==
    [recording |-> doc.recording, documentType |-> doc.documentType,
     recordDate |-> doc.recordDate, from |-> doc.from, to |-> doc.to,
     legalDescription |-> doc.legalDescription]

\* Each field that is present on both sides contributes <<weight, earned>>:
\* the weight appended to weights and the amount added to score.

\* lines 123-134
RecordingTerm(doc1, doc2) ==
    LET recording1 == _normalize_string(doc1.recording)
        recording2 == _normalize_string(doc2.recording)
    IN  IF recording1 # <<>> /\ recording2 # <<>>
        THEN << <<weight_recording,
                  IF recording1 = recording2 THEN weight_recording ELSE FloatZero>> >>
        ELSE <<>>

\* a variant without the coarse category branch of line 142
TypeTerm_exact_only(doc1, doc2) ==
    LET type1 == _normalize_string(doc1.documentType)
        type2 == _normalize_string(doc2.documentType)
    IN  IF type1 # <<>> /\ type2 # <<>>
        THEN << <<weight_type, IF type1 = type2 THEN weight_type ELSE FloatZero>> >>
        ELSE <<>>

\* lines 136-144
TypeTerm(doc1, doc2) ==
    LET type1 == _normalize_string(doc1.documentType)
        type2 == _normalize_string(doc2.documentType)
    IN  IF type1 # <<>> /\ type2 # <<>>
        THEN << <<weight_type,
                  IF type1 = type2 THEN weight_type
                  ELSE IF _normalize_doc_type(type1) = _normalize_doc_type(type2)
                  THEN weight_type_category
                  ELSE FloatZero>> >>
        ELSE <<>>

\* lines 146-155
DateTerm(doc1, doc2) ==
    LET date1 == _normalize_string(doc1.recordDate)
        date2 == _normalize_string(doc2.recordDate)
    IN  IF date1 # <<>> /\ date2 # <<>>
        THEN << <<weight_date, IF date1 = date2 THEN weight_date ELSE FloatZero>> >>
        ELSE <<>>

\* len(parties1 & parties2) / max(len(parties1), len(parties2))
PartiesMatch(parties1, parties2) ==
    FloatDiv(FloatFromInt(Cardinality(parties1 \cap parties2)),
             FloatFromInt(Max(Cardinality(parties1), Cardinality(parties2))))

\* lines 157-172
PartiesTerm(doc1, doc2) ==
    LET parties1_from == NormalizedSet(doc1.from)
        parties1_to == NormalizedSet(doc1.to)
        parties2_from == NormalizedSet(doc2.from)
        parties2_to == NormalizedSet(doc2.to)
    IN  IF /\ parties1_from # {} /\ parties2_from # {}
           /\ parties1_to # {} /\ parties2_to # {}
        THEN << <<weight_parties,
                  FloatMul(weight_parties,
                           FloatDiv(FloatAdd(PartiesMatch(parties1_from, parties2_from),
                                             PartiesMatch(parties1_to, parties2_to)),
                                    FloatFromInt(2)))>> >>
        ELSE <<>>

\* lines 174-180
LegalTerm(doc1, doc2) ==
    LET legal1 == Strip(doc1.legalDescription)
        legal2 == Strip(doc2.legalDescription)
    IN  IF legal1 # <<>> /\ legal2 # <<>>
        THEN << <<weight_legal, FloatMul(weight_legal, ratio(legal1, legal2))>> >>
        ELSE <<>>

\* lines 182-188: score / sum(weights).  score starts at 0.0 and grows by
\* one addition per term, which is the same left-to-right sum
ScoreOverWeight(score, total_weight) ==
    IF FloatPositive(total_weight) THEN FloatDiv(score, total_weight) ELSE FloatZero

NormalizedScore(terms) ==
    ScoreOverWeight(FloatSum([k \in 1..Len(terms) |-> terms[k][2]]),
                    FloatSum([k \in 1..Len(terms) |-> terms[k][1]]))

_calculate_document_similarity(doc1, doc2) ==
    NormalizedScore(RecordingTerm(doc1, doc2) \o TypeTerm(doc1, doc2)
                    \o DateTerm(doc1, doc2) \o PartiesTerm(doc1, doc2)
                    \o LegalTerm(doc1, doc2))

RecordingValues == {<<>>, str_B1, str_b1_sp, str_B2}
TypeValues == {str_Deed, str_QC_Deed, str_Mortgage}
DateValues == {str_2001, str_2002}
FromValues == {<<str_Al>>, <<str_AL, str_Bo>>}
ToValues == {<<>>, <<str_Cy>>}
LegalValues == {<<>>, str_Lot_1, str_Lot_2}
NotesValues == {<<>>, str_see_p2, str_ok, str_Released, str_PAID}
PageValues ==
    {[start |-> 0, end |-> 0, note |-> <<>>], [start |-> 1, end |-> 2, note |-> <<>>],
     [start |-> 3, end |-> 0, note |-> <<>>]}

\* the document the inputs are variations of
TypicalFields ==
    [recording |-> str_B1, documentType |-> str_Deed, recordDate |-> str_2001,
     from |-> <<str_Al>>, to |-> <<str_Cy>>, legalDescription |-> str_Lot_1]

Variation(f) ==
    Cardinality({k \in DOMAIN TypicalFields : f[k] # TypicalFields[k]})

\* the scored fields of the input documents: the typical document with at
\* most MaxVariation fields changed
DocumentFields ==
    {f \in [recording : RecordingValues, documentType : TypeValues,
            recordDate : DateValues, from : FromValues, to : ToValues,
            legalDescription : LegalValues] : Variation(f) <= MaxVariation}

str_tide == <<"t", "i", "d", "e">>
str_diet == <<"d", "i", "e", "t">>

\* documents with few fields: one with a recording locator and a type
\* only for each type, and two with neither locator nor grantee whose
\* legal descriptions SequenceMatcher rates 0.25 in one order and 0.5 in
\* the other
SparseFields ==
    {[recording |-> str_B1, documentType |-> type, recordDate |-> <<>>,
      from |-> <<>>, to |-> <<>>, legalDescription |-> <<>>] : type \in TypeValues}
    \cup
    {[recording |-> <<>>, documentType |-> str_Deed, recordDate |-> str_2001,
      from |-> <<str_Al>>, to |-> <<>>, legalDescription |-> legal] :
        legal \in {str_tide, str_diet}}

\* a freshly extracted document: no allPageLocations, no page note
Document(f, notes, pages) ==
    [recording |-> f.recording, documentType |-> f.documentType,
     recordDate |-> f.recordDate, from |-> f.from, to |-> f.to,
     legalDescription |-> f.legalDescription, notes |-> notes,
     pageLocation |-> pages, allPageLocations |-> <<>>]

Documents ==
    {Document(f, notes, pages) :
        f \in DocumentFields, notes \in {<<>>, str_Released},
        pages \in {p \in PageValues : p.start = 0 \/ p.end # 0}}
    \cup
    {Document(f, <<>>, [start |-> 1, end |-> 2, note |-> <<>>]) : f \in SparseFields}

MergeRecords ==
    {Document(TypicalFields, notes, pages) : notes \in NotesValues, pages \in PageValues}

\* similarity_score >= 0.85 (line 96), evaluated once for every pair of
\* scored fields of the input documents: <<fields1, fields2, decision>>
SimilarityDecisions ==
    {<<pair[1], pair[2],
       FloatGe(_calculate_document_similarity(pair[1], pair[2]), merge_threshold)>> :
        pair \in (DocumentFields \cup SparseFields) \X (DocumentFields \cup SparseFields)}

IsDuplicateDocument(doc, existing_doc) ==
    <<ScoredFields(doc), ScoredFields(existing_doc), TRUE>> \in SimilarityDecisions

kw_discharged == <<"d","i","s","c","h","a","r","g","e","d">>
kw_satisfied == <<"s","a","t","i","s","f","i","e","d">>
kw_released == <<"r","e","l","e","a","s","e","d">>
kw_paid_in_full == <<"p","a","i","d"," ","i","n"," ","f","u","l","l">>
kw_cancelled == <<"c","a","n","c","e","l","l","e","d">>
kw_terminated == <<"t","e","r","m","i","n","a","t","e","d">>

discharge_keywords ==
    {kw_discharged, kw_satisfied, kw_released, kw_paid_in_full, kw_cancelled,
     kw_terminated}

_has_discharge_info(notes) ==
    /\ notes # <<>>
    /\ \E keyword \in discharge_keywords : Contains(Lower(notes), keyword)

\* a variant that keeps the accepted record's notes whenever it has any
merge_notes_keep_existing(existing_notes, duplicate_notes) ==
    IF existing_notes # <<>> THEN existing_notes ELSE duplicate_notes

\* the notes of the accepted record after the merge (lines 251-266)
merge_notes(existing_notes, duplicate_notes) ==
    IF _has_discharge_info(duplicate_notes) /\ ~_has_discharge_info(existing_notes)
    THEN duplicate_notes
    ELSE IF _has_discharge_info(existing_notes) THEN existing_notes
    ELSE IF duplicate_notes # <<>> /\ duplicate_notes # existing_notes
    THEN IF existing_notes # <<>>
         THEN existing_notes \o <<" ", "|", " ">> \o duplicate_notes
         ELSE duplicate_notes
    ELSE existing_notes

PageRange(p) == [start |-> p.start, end |-> p.end]

\* a non-empty page dict
HasPages(p) == p.start # 0 \/ p.end # 0

SetMin(S) == CHOOSE x \in S : \A y \in S : x <= y
SetMax(S) == CHOOSE x \in S : \A y \in S : x >= y

_merge_documents(existing_doc, duplicate_doc) ==
    LET existing_pages == existing_doc.pageLocation
        duplicate_pages == duplicate_doc.pageLocation
        own == IF existing_doc.allPageLocations = <<>>
               THEN <<PageRange(existing_pages)>>
               ELSE existing_doc.allPageLocations
        all == IF HasPages(duplicate_pages)
               THEN Append(own, PageRange(duplicate_pages)) ELSE own
        all_starts == {all[k].start : k \in {n \in 1..Len(all) : all[n].start # 0}}
        all_ends == {all[k].end : k \in {n \in 1..Len(all) : all[n].end # 0}}
        pages == IF all_starts # {} /\ all_ends # {}
                 THEN [start |-> SetMin(all_starts), end |-> SetMax(all_ends),
                       note |-> all]
                 ELSE existing_pages
    IN  [existing_doc EXCEPT !.allPageLocations = all,
                             !.pageLocation = pages,
                             !.notes = merge_notes(existing_doc.notes,
                                                   duplicate_doc.notes)]

\* the least position of S, 0 for none
FirstOf(S) == IF S = {} THEN 0 ELSE SetMin(S)

\* a variant that keeps scanning after a match: the last duplicate wins
LastDuplicateOf(doc, unique_docs) ==
    LET S == {j \in 1..Len(unique_docs) : IsDuplicateDocument(doc, unique_docs[j])}
    IN  IF S = {} THEN 0 ELSE SetMax(S)

\* the first accepted record the document is a duplicate of, 0 if none
\* (the scan of lines 93-100 stops at the first match)
FirstDuplicateOf(doc, unique_docs) ==
    FirstOf({j \in 1..Len(unique_docs) : IsDuplicateDocument(doc, unique_docs[j])})

\* a variant of the loop that forgets is_duplicate: the merged document
\* is accepted as well
RECURSIVE DocumentsLoopKeepMerged(_, _, _, _)
DocumentsLoopKeepMerged(docs, i, unique_docs, merged_into) ==
    IF i > Len(docs) THEN [unique_docs |-> unique_docs, merged_into |-> merged_into]
    ELSE LET doc == docs[i]
             j == FirstDuplicateOf(doc, unique_docs)
         IN  IF j # 0
             THEN DocumentsLoopKeepMerged(docs, i + 1,
                      Append([unique_docs EXCEPT ![j] = _merge_documents(@, doc)], doc),
                      Append(merged_into, j))
             ELSE DocumentsLoopKeepMerged(docs, i + 1, Append(unique_docs, doc),
                                          Append(merged_into, 0))

\* the loop of lines 90-103 from document i on; merged_into[i] is the
\* position in unique_docs of the record that document i was merged into,
\* 0 for a document accepted as distinct
RECURSIVE DocumentsLoop(_, _, _, _)
DocumentsLoop(docs, i, unique_docs, merged_into) ==
    IF i > Len(docs) THEN [unique_docs |-> unique_docs, merged_into |-> merged_into]
    ELSE LET doc == docs[i]
             j == FirstDuplicateOf(doc, unique_docs)
         IN  IF j # 0
             THEN DocumentsLoop(docs, i + 1,
                      [unique_docs EXCEPT ![j] = _merge_documents(@, doc)],
                      Append(merged_into, j))
             ELSE DocumentsLoop(docs, i + 1, Append(unique_docs, doc),
                                Append(merged_into, 0))

deduplicate_documents(docs) ==
    IF Len(docs) <= 1
    THEN [unique_docs |-> docs, merged_into |-> [k \in 1..Len(docs) |-> 0]]
    ELSE DocumentsLoop(docs, 1, <<>>, <<>>)

\* the number of _merge_documents calls of a run
MergeCount(merged_into) ==
    Cardinality({i \in 1..Len(merged_into) : merged_into[i] # 0})

InitDocuments ==
    /\ documents \in SeqsUpTo(Documents, MaxDocuments)
    /\ doc_unique = <<>>
    /\ doc_merged_into = <<>>
    /\ doc_merges = <<>>
    /\ doc_pc = "start"
    /\ Idle("documents")

\* deduplicate_documents, first on the input and then on its own output
DeduplicateDocuments ==
    /\ doc_pc \in {"start", "once"}
    /\ LET input == IF doc_pc = "start" THEN documents ELSE doc_unique
           result == deduplicate_documents(input)
       IN  /\ documents' = input
           /\ doc_unique' = result.unique_docs
           /\ doc_merged_into' = result.merged_into
           /\ doc_merges' = Append(doc_merges, MergeCount(result.merged_into))
    /\ doc_pc' = IF doc_pc = "start" THEN "once" ELSE "twice"
    /\ UNCHANGED <<invVars, cmpVars, mrgVars, anaVars, chnVars, extVars, nmVars, dkVars>>

NextDocuments == DeduplicateDocuments

SpecDocuments == InitDocuments /\ [][NextDocuments]_vars

\* C1: running deduplicate_documents on its own output performs no merge
\* and returns the same sequence of records, with the same notes,
\* pageLocation and allPageLocations
C1_Idempotent ==
    doc_pc = "twice" => doc_merges[2] = 0 /\ doc_unique = documents

\* a second run on an output of two records, one of them the result of a
\* merge in the first run
C1_Witness ==
    /\ doc_pc = "twice"
    /\ doc_merges[1] > 0
    /\ Len(doc_unique) = 2
    /\ \E k \in 1..2 : doc_unique[k].allPageLocations # <<>>

\* the input positions of the documents accepted as distinct
AcceptedPositions == {i \in 1..Len(doc_merged_into) : doc_merged_into[i] = 0}

\* the output position of the record that accepted input document i became
RecordOf(i) == Cardinality({j \in AcceptedPositions : j <= i})

\* the output records accepted before input document i was processed that
\* score at least 0.85 with it
DuplicatesBefore(i) ==
    {k \in {RecordOf(j) : j \in {a \in AcceptedPositions : a < i}} :
        IsDuplicateDocument(documents[i], doc_unique[k])}

\* C11 (as amended): the records are the accepted input documents in input
\* order; each document is merged into the first record accepted before it
\* that it scores at least 0.85 against and is accepted when there is
\* none; and every record scores below 0.85 against each record before
\* it in the output, the score taken as the loop takes it, with the later
\* document as first argument
C11_MergedIntoFirstMatch ==
    doc_pc = "once" =>
        /\ Len(doc_merged_into) = Len(documents)
        /\ Len(doc_unique) = Cardinality(AcceptedPositions)
        /\ \A i \in AcceptedPositions :
                ScoredFields(doc_unique[RecordOf(i)]) = ScoredFields(documents[i])
        /\ \A i \in 1..Len(documents) :
                doc_merged_into[i] = FirstOf(DuplicatesBefore(i))
        /\ \A k \in 1..Len(doc_unique) : \A l \in (k + 1)..Len(doc_unique) :
                ~IsDuplicateDocument(doc_unique[l], doc_unique[k])

\* three documents of which the third is a duplicate of both accepted
\* records and was merged into the first
C11_Witness ==
    /\ doc_pc = "once"
    /\ Len(documents) = 3
    /\ doc_merged_into = <<0, 0, 1>>
    /\ IsDuplicateDocument(documents[3], doc_unique[2])

\* C11 as stated: every pair of records of the output scores below 0.85,
\* whichever of the two is scored against the other
C11_EveryPairBelowThreshold ==
    doc_pc = "once" =>
        \A k \in 1..Len(doc_unique) : \A l \in 1..Len(doc_unique) :
            k # l => ~IsDuplicateDocument(doc_unique[k], doc_unique[l])

\* recording locators present and equal after normalization
SameRecording(doc1, doc2) ==
    /\ _normalize_string(doc1.recording) # <<>>
    /\ _normalize_string(doc1.recording) = _normalize_string(doc2.recording)

\* document types equal after normalization
SameType(doc1, doc2) ==
    /\ _normalize_string(doc1.documentType) # <<>>
    /\ _normalize_string(doc1.documentType) = _normalize_string(doc2.documentType)

\* document types of the same coarse category
SameTypeCategory(doc1, doc2) ==
    /\ _normalize_string(doc1.documentType) # <<>>
    /\ _normalize_string(doc2.documentType) # <<>>
    /\ _normalize_doc_type(_normalize_string(doc1.documentType))
            = _normalize_doc_type(_normalize_string(doc2.documentType))

\* the record date, the parties and the legal description each are absent
\* on a side or agree
OtherFieldsAgree(doc1, doc2) ==
    /\ DateTerm(doc1, doc2) # <<>>
            => _normalize_string(doc1.recordDate) = _normalize_string(doc2.recordDate)
    /\ PartiesTerm(doc1, doc2) # <<>>
            => /\ NormalizedSet(doc1.from) = NormalizedSet(doc2.from)
               /\ NormalizedSet(doc1.to) = NormalizedSet(doc2.to)
    /\ LegalTerm(doc1, doc2) # <<>>
            => Strip(doc1.legalDescription) = Strip(doc2.legalDescription)

\* no field but the recording locator and the type is present on both sides
NoOtherField(doc1, doc2) ==
    DateTerm(doc1, doc2) = <<>> /\ PartiesTerm(doc1, doc2) = <<>>
        /\ LegalTerm(doc1, doc2) = <<>>

\* C12 (as amended): a document with the recording locator of the first
\* document and a type matching it exactly or by coarse category is merged
\* into it provided every other field that is present on both sides agrees
\* (in particular when no other field is present on both sides); with types
\* that match neither way and no other field present on both sides it is
\* not merged
C12_RecordingAndTypeDecide ==
    (doc_pc = "once" /\ Len(documents) >= 2
        /\ SameRecording(documents[2], documents[1])) =>
        /\ (SameTypeCategory(documents[2], documents[1])
                /\ OtherFieldsAgree(documents[2], documents[1]))
             => doc_merged_into[2] = 1
        /\ (~SameTypeCategory(documents[2], documents[1])
                /\ NoOtherField(documents[2], documents[1]))
             => doc_merged_into[2] = 0

\* two documents with a locator and a type only, same category and
\* different wording, merged
C12_Witness ==
    /\ doc_pc = "once"
    /\ Len(documents) = 2
    /\ SameRecording(documents[2], documents[1])
    /\ SameTypeCategory(documents[2], documents[1])
    /\ ~SameType(documents[2], documents[1])
    /\ NoOtherField(documents[2], documents[1])
    /\ doc_merged_into = <<0, 1>>

\* C12 as stated: identical recording locator and matching type suffice
\* for a merge
C12_RecordingAndTypeMerge ==
    (doc_pc = "once" /\ Len(documents) >= 2
        /\ SameRecording(documents[2], documents[1])
        /\ SameType(documents[2], documents[1])) => doc_merged_into[2] = 1

InitMerge ==
    /\ mrg_existing \in MergeRecords
    /\ mrg_notes = <<mrg_existing.notes>>
    /\ mrg_before = mrg_existing.notes
    /\ Idle("merge")

\* one call _merge_documents(existing_doc, duplicate_doc) into the record
MergeDocuments ==
    /\ Len(mrg_notes) <= MaxMerges
    /\ \E duplicate_doc \in MergeRecords :
        /\ mrg_existing' = _merge_documents(mrg_existing, duplicate_doc)
        /\ mrg_notes' = Append(mrg_notes, duplicate_doc.notes)
        /\ mrg_before' = mrg_existing.notes
    /\ UNCHANGED <<invVars, cmpVars, docVars, anaVars, chnVars, extVars, nmVars, dkVars>>

NextMerge == MergeDocuments

SpecMerge == InitMerge /\ [][NextMerge]_vars

\* C2: after any sequence of merges into one accepted record, if the
\* record's own notes or the notes of any merged duplicate contain a
\* discharge keyword then the record's notes contain one; and a merge of a
\* duplicate with discharge information into a record without any makes
\* the record's notes exactly the duplicate's notes
C2_DischargeKept ==
    /\ (\E k \in 1..Len(mrg_notes) : _has_discharge_info(mrg_notes[k]))
            => _has_discharge_info(mrg_existing.notes)
    /\ ( /\ Len(mrg_notes) > 1
         /\ ~_has_discharge_info(mrg_before)
         /\ _has_discharge_info(mrg_notes[Len(mrg_notes)]) )
            => mrg_existing.notes = mrg_notes[Len(mrg_notes)]

\* a record without discharge information that received a duplicate with
\* it and then a duplicate with different discharge information
C2_Witness ==
    /\ Len(mrg_notes) = 3
    /\ mrg_notes[1] # <<>>
    /\ ~_has_discharge_info(mrg_notes[1])
    /\ _has_discharge_info(mrg_notes[2])
    /\ _has_discharge_info(mrg_notes[3])
    /\ mrg_notes[2] # mrg_notes[3]
    /\ mrg_existing.notes = mrg_notes[2]

-----------------------------------------------------------------------------
(* Chronological analysis (chain_analyzer.py)                              *)
(*                                                                         *)
(* A document is its dates.recordDate string (<<>> for None or a missing   *)
(* key), its property.legalDescription and its legalDescriptionComparison  *)
(* as extracted; its identity is its position in the input list.  A parsed *)
(* date is <<year, month, day>> (strptime leaves the time at midnight),    *)
(* <<>> for None.                                                          *)

MaxChain == 3

str_None == <<"N","o","n","e">>
str_blank == <<" "," ">>
str_date_long == <<"M","a","r","c","h"," ","1","1",","," ","2","0","2","5">>
str_date_abbr == <<"m","a","r"," "," ","5",","," ","2","0","1","2">>
str_date_may == <<"M","a","y"," ","9"," ","2","0","2","4">>
str_date_slash == <<" ","0","3","/","0","1","/","2","0","1","9">>
str_date_dash == <<"2","-","2","8","-","2","0","1","9">>
str_date_iso == <<"2","0","2","4","-","0","2","-","2","9">>
str_date_feb29 == <<"2","0","2","5","-","0","2","-","2","9">>
str_date_month13 == <<"1","3","/","0","1","/","2","0","2","4">>
str_date_year2 == <<"0","3","/","1","1","/","2","5">>
str_date_extra == <<"2","0","2","4","-","0","2","-","2","9","T">>

RecordDates ==
    {<<>>, str_None, str_blank, str_date_long, str_date_abbr, str_date_may,
     str_date_slash, str_date_dash, str_date_iso, str_date_feb29,
     str_date_month13, str_date_year2, str_date_extra}

\* self.date_formats, each format split into directives and literals
date_formats ==
    << <<"%B", " ", "%d", ",", " ", "%Y">>,
       <<"%b", " ", "%d", ",", " ", "%Y">>,
       <<"%m", "/", "%d", "/", "%Y">>,
       <<"%Y", "-", "%m", "-", "%d">>,
       <<"%m", "-", "%d", "-", "%Y">>,
       <<"%B", " ", "%d", " ", "%Y">> >>

month_names ==
    << <<"j","a","n","u","a","r","y">>, <<"f","e","b","r","u","a","r","y">>,
       <<"m","a","r","c","h">>, <<"a","p","r","i","l">>, <<"m","a","y">>,
       <<"j","u","n","e">>, <<"j","u","l","y">>, <<"a","u","g","u","s","t">>,
       <<"s","e","p","t","e","m","b","e","r">>, <<"o","c","t","o","b","e","r">>,
       <<"n","o","v","e","m","b","e","r">>, <<"d","e","c","e","m","b","e","r">> >>

month_abbreviations == [k \in 1..12 |-> SubSeq(month_names[k], 1, 3)]

IsDigit(c) == \E k \in 1..10 : Digits[k] = c
DigitValue(c) == (CHOOSE k \in 1..10 : Digits[k] = c) - 1
CharAt(s, pos) == IF pos >= 1 /\ pos <= Len(s) THEN s[pos] ELSE ""

\* the number formed by the n digits of s from pos on, -1 if they are not
\* n digits
RECURSIVE DigitsValue(_, _, _)
DigitsValue(s, pos, n) ==
    IF n = 0 THEN 0
    ELSE IF ~IsDigit(CharAt(s, pos + n - 1)) THEN -1
    ELSE IF DigitsValue(s, pos, n - 1) < 0 THEN -1
    ELSE DigitsValue(s, pos, n - 1) * 10 + DigitValue(s[pos + n - 1])

\* The ways one element of a format matches s at pos, in the order the
\* regular expression of _strptime tries them, each <<next position, value>>.

\* two digits in low..high, else one digit 1-9: %m is 1[0-2]|0[1-9]|[1-9]
NumberMatches(s, pos, low, high) ==
    (IF DigitsValue(s, pos, 2) >= low /\ DigitsValue(s, pos, 2) <= high
     THEN << <<pos + 2, DigitsValue(s, pos, 2)>> >> ELSE <<>>)
    \o (IF DigitsValue(s, pos, 1) >= 1 THEN << <<pos + 1, DigitsValue(s, pos, 1)>> >>
        ELSE <<>>)

\* %d is 3[0-1]|[1-2]\d|0[1-9]|[1-9]| [1-9]
DayMatches(s, pos) ==
    NumberMatches(s, pos, 1, 31)
    \o (IF CharAt(s, pos) = " " /\ DigitsValue(s, pos + 1, 1) >= 1
        THEN << <<pos + 2, DigitsValue(s, pos + 1, 1)>> >> ELSE <<>>)

\* %Y is \d\d\d\d
YearMatches(s, pos) ==
    IF DigitsValue(s, pos, 4) >= 0 THEN << <<pos + 4, DigitsValue(s, pos, 4)>> >>
    ELSE <<>>

\* k for the name of names that s holds at pos, ignoring case (no name is
\* the start of another)
NamesAt(names, s, pos) ==
    {k \in 1..12 : /\ pos + Len(names[k]) - 1 <= Len(s)
                   /\ Lower(SubSeq(s, pos, pos + Len(names[k]) - 1)) = names[k]}

NameMatched(names, pos, found) ==
    IF found = {} THEN <<>>
    ELSE << <<pos + Len(names[CHOOSE k \in found : TRUE]), CHOOSE k \in found : TRUE>> >>

\* %B and %b
NameMatches(names, s, pos) == NameMatched(names, pos, NamesAt(names, s, pos))

\* the length of the run of white space of s at pos
SpaceRun(s, pos) ==
    CHOOSE n \in 0..Len(s) :
        /\ \A k \in 0..(n - 1) : IsSpace(CharAt(s, pos + k))
        /\ ~IsSpace(CharAt(s, pos + n))

SpacesMatched(pos, run) == [k \in 1..run |-> <<pos + run - k + 1, 0>>]

\* white space in a format is \s+, the longest run first
SpaceMatches(s, pos) == SpacesMatched(pos, SpaceRun(s, pos))

DirectiveMatches(directive, s, pos) ==
    IF directive = "%d" THEN DayMatches(s, pos)
    ELSE IF directive = "%m" THEN NumberMatches(s, pos, 1, 12)
    ELSE IF directive = "%Y" THEN YearMatches(s, pos)
    ELSE IF directive = "%B" THEN NameMatches(month_names, s, pos)
    ELSE IF directive = "%b" THEN NameMatches(month_abbreviations, s, pos)
    ELSE IF directive = " " THEN SpaceMatches(s, pos)
    ELSE IF CharAt(s, pos) = directive THEN << <<pos + 1, 0>> >> ELSE <<>>

NoFields == [k \in {"%B", "%b", "%m", "%d", "%Y"} |-> 0]

\* the value of a directive recorded in the fields found so far
WithField(fields, directive, value) ==
    IF directive \in DOMAIN fields THEN [fields EXCEPT ![directive] = value]
    ELSE fields

\* the first match of the format from element k on, s from pos on:
\* [ok, end, fields], fields holding the value of each directive met
RECURSIVE MatchFormat(_, _, _, _, _)
RECURSIVE FirstMatch(_, _, _, _, _, _)
RECURSIVE MatchOrNext(_, _, _, _, _, _, _)
MatchFormat(format, k, s, pos, fields) ==
    IF k > Len(format) THEN [ok |-> TRUE, end |-> pos, fields |-> fields]
    ELSE FirstMatch(format, k, s, fields, DirectiveMatches(format[k], s, pos), 1)

FirstMatch(format, k, s, fields, matches, n) ==
    IF n > Len(matches) THEN [ok |-> FALSE, end |-> 0, fields |-> fields]
    ELSE MatchOrNext(format, k, s, fields, matches, n,
                     MatchFormat(format, k + 1, s, matches[n][1],
                                 WithField(fields, format[k], matches[n][2])))

\* rest the match of the remaining elements after alternative n
MatchOrNext(format, k, s, fields, matches, n, rest) ==
    IF rest.ok THEN rest ELSE FirstMatch(format, k, s, fields, matches, n + 1)

IsLeapYear(year) == year % 4 = 0 /\ (year % 100 # 0 \/ year % 400 = 0)

DaysInMonth(year, month) ==
    IF month = 2 THEN (IF IsLeapYear(year) THEN 29 ELSE 28)
    ELSE IF month \in {4, 6, 9, 11} THEN 30 ELSE 31

\* the datetime of the fields found: ValueError (<<>>) where there is no
\* such date
DateOfFields(year, month, day) ==
    IF year < 1 \/ day > DaysInMonth(year, month) THEN <<>>
    ELSE <<year, month, day>>

\* found the match of the whole format
DateOfMatch(found, length) ==
    IF ~found.ok \/ found.end # length + 1 THEN <<>>
    ELSE DateOfFields(found.fields["%Y"],
                      found.fields["%B"] + found.fields["%b"] + found.fields["%m"],
                      found.fields["%d"])

\* datetime.strptime(s, format): <<year, month, day>>, or <<>> where it
\* raises ValueError (no match, unconverted data, or no such date)
strptime(s, format) == DateOfMatch(MatchFormat(format, 1, s, 1, NoFields), Len(s))

\* the first format that parses, lines 130-136
RECURSIVE ParseWith(_, _)
ParseWith(s, k) ==
    IF k > Len(date_formats) THEN <<>>
    ELSE IF strptime(s, date_formats[k]) # <<>> THEN strptime(s, date_formats[k])
    ELSE ParseWith(s, k + 1)

_parse_date(date_str) ==
    IF date_str = <<>> \/ date_str = str_None THEN <<>>
    ELSE ParseWith(Strip(date_str), 1)

\* line 42: the record date counts as missing
MissingRecordDate(record_date) ==
    record_date = <<>> \/ record_date = str_None \/ Strip(record_date) = <<>>

\* _parse_date for every record date of the inputs: <<string, datetime>>
ParsedRecordDates == {<<s, _parse_date(s)>> : s \in RecordDates}

\* doc['_parsed_record_date'] of a document (lines 42-55)
_parsed_record_date(record_date) ==
    IF MissingRecordDate(record_date) THEN <<>>
    ELSE (CHOOSE p \in ParsedRecordDates : p[1] = record_date)[2]

\* Legal descriptions of the chain
str_Lot_5 == <<"L","o","t"," ","5">>
str_LOT_5 == <<"L","O","T"," "," ","5">>
str_Lot_No_5 == <<"L","o","t"," ","N","o","."," ","5"," ","r","d",".">>
str_Lot_7 == <<"L","o","t"," ","7">>
str_5_toL == <<"5"," ","t","o","L">>

ChainDescriptions == {<<>>, str_Lot_5, str_LOT_5, str_Lot_No_5, str_Lot_7, str_5_toL}

\* re.sub(r'\s+', ' ', desc)
RECURSIVE CollapseSpaces(_)
CollapseSpaces(s) ==
    IF s = <<>> THEN <<>>
    ELSE IF ~IsSpace(s[1]) THEN <<s[1]>> \o CollapseSpaces(Tail(s))
    ELSE IF Len(s) > 1 /\ IsSpace(s[2]) THEN CollapseSpaces(Tail(s))
    ELSE <<" ">> \o CollapseSpaces(Tail(s))

\* s.replace(old, new): the occurrences of old from the left, not overlapping
RECURSIVE Replace(_, _, _)
Replace(s, old, new) ==
    IF Len(s) < Len(old) THEN s
    ELSE IF SubSeq(s, 1, Len(old)) = old
    THEN new \o Replace(SubSeq(s, Len(old) + 1, Len(s)), old, new)
    ELSE <<s[1]>> \o Replace(Tail(s), old, new)

\* the replacements dict of lines 184-195, in insertion order
replacements ==
    << << <<"f","t",".">>, <<"f","e","e","t">> >>,
       << <<"f","t">>, <<"f","e","e","t">> >>,
       << <<"n",".">>, <<"n","o","r","t","h">> >>,
       << <<"s",".">>, <<"s","o","u","t","h">> >>,
       << <<"e",".">>, <<"e","a","s","t">> >>,
       << <<"w",".">>, <<"w","e","s","t">> >>,
       << <<"s","t",".">>, <<"s","t","r","e","e","t">> >>,
       << <<"a","v","e",".">>, <<"a","v","e","n","u","e">> >>,
       << <<"r","d",".">>, <<"r","o","a","d">> >>,
       << <<"b","l","v","d",".">>, <<"b","o","u","l","e","v","a","r","d">> >> >>

RECURSIVE ReplaceFrom(_, _)
ReplaceFrom(desc, k) ==
    IF k > Len(replacements) THEN desc
    ELSE ReplaceFrom(Replace(desc, replacements[k][1], replacements[k][2]), k + 1)

_normalize_description(desc) == Strip(ReplaceFrom(CollapseSpaces(Lower(desc)), 1))

\* the first position from pos on that holds no white space
RECURSIVE SkipSpaces(_, _)
SkipSpaces(s, pos) ==
    IF IsSpace(CharAt(s, pos)) THEN SkipSpaces(s, pos + 1) ELSE pos

\* the longest run of characters of class from pos on
RECURSIVE RunOf(_, _, _)
RunOf(s, pos, class) ==
    IF CharAt(s, pos) \in class THEN <<s[pos]>> \o RunOf(s, pos + 1, class) ELSE <<>>

\* s holds word at pos, ignoring case
WordAt(s, pos, word) ==
    pos + Len(word) - 1 <= Len(s) /\ Lower(SubSeq(s, pos, pos + Len(word) - 1)) = word

\* the positions where the number may start after \s*(?:no\.?\s*)? from
\* pos, in the order the regular expression tries them; p the position
\* after the white space
NumberStartsAfter(s, p) ==
    (IF WordAt(s, p, <<"n","o">>)
     THEN (IF CharAt(s, p + 2) = "." THEN <<SkipSpaces(s, p + 3)>> ELSE <<>>)
          \o <<SkipSpaces(s, p + 2)>>
     ELSE <<>>)
    \o <<p>>

RECURSIVE FirstRun(_, _, _, _)
FirstRun(s, starts, k, class) ==
    IF k > Len(starts) THEN <<>>
    ELSE IF RunOf(s, starts[k], class) # <<>> THEN RunOf(s, starts[k], class)
    ELSE FirstRun(s, starts, k + 1, class)

\* group 1 of \s*(?:no\.?\s*)?([class]+) matched at pos, <<>> for no match
NumberAfter(s, pos, class) ==
    FirstRun(s, NumberStartsAfter(s, SkipSpaces(s, pos)), 1, class)

\* the positions after the keyword matched at pos: word, or for the parcel
\* pattern parcel|tax\s*map
KeywordEnds(s, pos, key) ==
    IF key = "parcel"
    THEN (IF WordAt(s, pos, <<"p","a","r","c","e","l">>) THEN <<pos + 6>> ELSE <<>>)
         \o (IF WordAt(s, pos, <<"t","a","x">>)
                /\ WordAt(s, SkipSpaces(s, pos + 3), <<"m","a","p">>)
             THEN <<SkipSpaces(s, pos + 3) + 3>> ELSE <<>>)
    ELSE IF key = "lot"
    THEN (IF WordAt(s, pos, <<"l","o","t">>) THEN <<pos + 3>> ELSE <<>>)
    ELSE (IF WordAt(s, pos, <<"b","l","o","c","k">>) THEN <<pos + 5>> ELSE <<>>)

NumberClass(key) ==
    IF key = "parcel" THEN {Digits[k] : k \in 1..10} \cup {".", "-"}
    ELSE {Digits[k] : k \in 1..10}

RECURSIVE FirstNumber(_, _, _, _)
FirstNumber(s, ends, k, class) ==
    IF k > Len(ends) THEN <<>>
    ELSE IF NumberAfter(s, ends[k], class) # <<>> THEN NumberAfter(s, ends[k], class)
    ELSE FirstNumber(s, ends, k + 1, class)

\* re.search of the pattern for key: group 1 of the leftmost match
RECURSIVE SearchNumber(_, _, _)
SearchNumber(s, pos, key) ==
    IF pos > Len(s) THEN <<>>
    ELSE IF FirstNumber(s, KeywordEnds(s, pos, key), 1, NumberClass(key)) # <<>>
    THEN FirstNumber(s, KeywordEnds(s, pos, key), 1, NumberClass(key))
    ELSE SearchNumber(s, pos + 1, key)

\* the identifiers dict, an absent key as <<>>
_extract_identifiers(desc) ==
    [lot |-> SearchNumber(desc, 1, "lot"), block |-> SearchNumber(desc, 1, "block"),
     parcel |-> SearchNumber(desc, 1, "parcel")]

NoIdentifiers == [lot |-> <<>>, block |-> <<>>, parcel |-> <<>>]

CharSet(s) == {s[k] : k \in 1..Len(s)}

\* _similarity_ratio(s1, s2) > 0.85, for non-empty strings: the quotient
\* of the two cardinalities is a double, 0.85 is the double nearest to
\* 17/20, and a quotient of integers below 2^53 is that double only when it
\* is 17/20, so the comparison is that of the fractions
SimilarCharacters(s1, s2) ==
    /\ s1 # <<>> /\ s2 # <<>>
    /\ 20 * Cardinality(CharSet(s1) \cap CharSet(s2))
            > 17 * Cardinality(CharSet(s1) \cup CharSet(s2))

\* d1, d2 the normalized descriptions (lines 151-173)
NormalizedMatch(desc1, desc2, d1, d2) ==
    \/ d1 = d2
    \/ Len(d1) > 50 /\ Len(d2) > 50 /\ (Contains(d2, d1) \/ Contains(d1, d2))
    \/ /\ _extract_identifiers(desc1) # NoIdentifiers
       /\ _extract_identifiers(desc1) = _extract_identifiers(desc2)
    \/ SimilarCharacters(d1, d2)

_descriptions_match(desc1, desc2) ==
    /\ desc1 # <<>> /\ desc2 # <<>>
    /\ NormalizedMatch(desc1, desc2, _normalize_description(desc1),
                       _normalize_description(desc2))

\* _descriptions_match for every pair of descriptions of the inputs
DescriptionMatches ==
    {<<pair[1], pair[2], _descriptions_match(pair[1], pair[2])>> :
        pair \in ChainDescriptions \X ChainDescriptions}

DescriptionsMatch(current_desc, prior_desc) ==
    <<current_desc, prior_desc, TRUE>> \in DescriptionMatches

\* legalDescriptionComparison: a missing key reads as the falsy default of
\* .get, so a document without one is NoComparison
NoComparison ==
    [isSameAsPrior |-> FALSE, sameAsEntryNumber |-> 0, differenceSummary |-> ""]

\* a comparison as the extraction prompt asks the extractor to fill it in
ExtractedComparison ==
    [isSameAsPrior |-> TRUE, sameAsEntryNumber |-> 3, differenceSummary |-> ""]

ChainDocument(record_date, legal, comparison) ==
    [recordDate |-> record_date, legalDescription |-> legal,
     legalDescriptionComparison |-> comparison]

\* the documents of the inputs: every record date with one description,
\* and every description and comparison with and without a date
ChainDocuments ==
    {ChainDocument(d, str_Lot_5, NoComparison) : d \in RecordDates}
    \cup
    {ChainDocument(d, legal, comparison) :
        d \in {<<>>, str_date_iso}, legal \in ChainDescriptions,
        comparison \in {NoComparison, ExtractedComparison}}

\* datetime comparison d1 <= d2
DateLE(d1, d2) ==
    \/ d1[1] < d2[1]
    \/ d1[1] = d2[1] /\ d1[2] < d2[2]
    \/ d1[1] = d2[1] /\ d1[2] = d2[2] /\ d1[3] <= d2[3]

\* where first goes into the sorted rest: before the documents in before
InsertBefore(rest, first, before) ==
    IF before = {} THEN Append(rest, first)
    ELSE SubSeq(rest, 1, SetMin(before) - 1) \o <<first>>
         \o SubSeq(rest, SetMin(before), Len(rest))

\* a sort that puts later dates first
RECURSIVE sorted_descending(_, _)
RECURSIVE sorted(_, _)

InsertSortedDescending(rest, first, dates) ==
    InsertBefore(rest, first, {k \in 1..Len(rest) : ~DateLE(dates[first], dates[rest[k]])})

sorted_descending(positions, dates) ==
    IF positions = <<>> THEN <<>>
    ELSE InsertSortedDescending(sorted_descending(Tail(positions), dates),
                                Head(positions), dates)

\* a document goes before the first of the later documents whose date is
\* not smaller
InsertSorted(rest, first, dates) ==
    InsertBefore(rest, first, {k \in 1..Len(rest) : DateLE(dates[first], dates[rest[k]])})

\* sorted(docs_with_dates, key=...) (line 58); Python's sort is stable
sorted(positions, dates) ==
    IF positions = <<>> THEN <<>>
    ELSE InsertSorted(sorted(Tail(positions), dates), Head(positions), dates)

Positions(n) == [k \in 1..n |-> k]

\* the positions 1..n that satisfy the test, in increasing order
RECURSIVE PositionsIn(_, _)
PositionsIn(S, n) ==
    IF n <= 0 THEN <<>>
    ELSE IF n \in S THEN Append(PositionsIn(S, n - 1), n)
    ELSE PositionsIn(S, n - 1)

\* step 1: doc['_parsed_record_date'] of every document
ParsedDates(docs) == [k \in 1..Len(docs) |-> _parsed_record_date(docs[k].recordDate)]

docs_with_dates(dates) == PositionsIn({k \in 1..Len(dates) : dates[k] # <<>>}, Len(dates))
docs_without_dates(dates) == PositionsIn({k \in 1..Len(dates) : dates[k] = <<>>}, Len(dates))

\* the warnings of lines 43 and 50, one per document without a date
DateWarning(docs, k) ==
    IF MissingRecordDate(docs[k].recordDate) THEN <<"Missing record date", k>>
    ELSE <<"Could not parse record date", k>>

DateWarnings(docs, undated) == [k \in 1..Len(undated) |-> DateWarning(docs, undated[k])]

\* step 4 (lines 64-69)
OrderIssues(with_dates, dates) ==
    PositionsIn({i \in 1..(Len(with_dates) - 1) :
                    ~DateLE(dates[with_dates[i]], dates[with_dates[i + 1]])},
                Len(with_dates) - 1)

OrderWarned(issues) == [k \in 1..Len(issues) |-> <<"Date order issue", issues[k], issues[k] + 1>>]

OrderWarnings(with_dates, dates) == OrderWarned(OrderIssues(with_dates, dates))

\* step 5, lines 79-86: the entry number of the first prior document
\* whose description matches, 0 for None
SameAs(docs, sorted_docs, i) ==
    FirstOf({j \in 1..(i - 1) :
                DescriptionsMatch(docs[sorted_docs[i]].legalDescription,
                                  docs[sorted_docs[j]].legalDescription)})

\* lines 89-100
ComparedTo(ldc, i, same_as) ==
    IF same_as # 0
    THEN [isSameAsPrior |-> TRUE, sameAsEntryNumber |-> same_as,
          differenceSummary |-> "Same as entry"]
    ELSE [isSameAsPrior |-> FALSE, sameAsEntryNumber |-> 0,
          differenceSummary |-> IF i > 1 THEN "Different parcel or first occurrence"
                                ELSE ldc.differenceSummary]

\* legalDescriptionComparison of the document at position i after step 5;
\* line 75 leaves a document without a description as it came
ComparedDocument(docs, sorted_docs, i) ==
    IF docs[sorted_docs[i]].legalDescription = <<>>
    THEN docs[sorted_docs[i]].legalDescriptionComparison
    ELSE ComparedTo(docs[sorted_docs[i]].legalDescriptionComparison, i,
                    SameAs(docs, sorted_docs, i))

Compared(docs, sorted_docs) ==
    [i \in 1..Len(sorted_docs) |-> ComparedDocument(docs, sorted_docs, i)]

\* step 6 (lines 103-110)
ForwardReferences(compared) ==
    PositionsIn({i \in 1..Len(compared) :
                    /\ compared[i].isSameAsPrior
                    /\ compared[i].sameAsEntryNumber # 0
                    /\ compared[i].sameAsEntryNumber > i},
                Len(compared))

ReferenceWarned(compared, forward) ==
    [k \in 1..Len(forward) |->
        <<"References entry which comes after it", forward[k],
          compared[forward[k]].sameAsEntryNumber>>]

ReferenceWarnings(compared) == ReferenceWarned(compared, ForwardReferences(compared))

\* date.toordinal()
DaysBeforeYear(year) ==
    (year - 1) * 365 + ((year - 1) \div 4) - ((year - 1) \div 100) + ((year - 1) \div 400)

RECURSIVE DaysBeforeMonth(_, _)
DaysBeforeMonth(year, month) ==
    IF month = 1 THEN 0
    ELSE DaysBeforeMonth(year, month - 1) + DaysInMonth(year, month - 1)

toordinal(date) == DaysBeforeYear(date[1]) + DaysBeforeMonth(date[1], date[2]) + date[3]

\* (date2 - date1).days
DaysBetween(date1, date2) == toordinal(date2) - toordinal(date1)

\* a variant that measures the gap in years of 365 days
GapExceeds_365(days) == days > 5 * 365

\* gap_years = days / 365.25 > 5 and int(gap_years): 365.25 is a double,
\* the quotient is correctly rounded and no quotient of fewer than 2^31
\* days is within 2^-40 of an integer it does not equal, so the comparison
\* and the truncation are those of the fraction 100 * days / 36525
GapExceeds(days) == 100 * days > 5 * 36525
GapYears(days) == (100 * days) \div 36525

Gaps(with_dates, dates) ==
    PositionsIn({i \in 1..(Len(with_dates) - 1) :
                    GapExceeds(DaysBetween(dates[with_dates[i]], dates[with_dates[i + 1]]))},
                Len(with_dates) - 1)

GapWarned(with_dates, dates, gaps) ==
    [k \in 1..Len(gaps) |->
        <<"Large time gap",
          GapYears(DaysBetween(dates[with_dates[gaps[k]]], dates[with_dates[gaps[k] + 1]])),
          gaps[k], gaps[k] + 1>>]

\* lines 237-255
_find_timeline_gaps(with_dates, dates) == GapWarned(with_dates, dates, Gaps(with_dates, dates))

\* steps 5 to 8, compared the result of step 5
AnalyzeCompared(docs, dates, with_dates, without_dates, compared) ==
    [sorted_docs |-> with_dates \o without_dates,
     compared |-> compared,
     warnings |-> DateWarnings(docs, without_dates) \o OrderWarnings(with_dates, dates)
                  \o ReferenceWarnings(compared) \o _find_timeline_gaps(with_dates, dates)]

\* steps 2 to 4
AnalyzeSorted(docs, dates, with_dates, without_dates) ==
    AnalyzeCompared(docs, dates, with_dates, without_dates,
                    Compared(docs, with_dates \o without_dates))

AnalyzeParsed(docs, dates) ==
    AnalyzeSorted(docs, dates, sorted(docs_with_dates(dates), dates),
                  docs_without_dates(dates))

\* analyze_chain: the returned list as input positions, the
\* legalDescriptionComparison of each returned document, and the warnings
analyze_chain(docs) ==
    IF docs = <<>>
    THEN [sorted_docs |-> <<>>, compared |-> <<>>,
          warnings |-> << <<"No documents to analyze">> >>]
    ELSE AnalyzeParsed(docs, ParsedDates(docs))

InitAnalyze ==
    /\ ana_documents \in SeqsUpTo(ChainDocuments, MaxChain)
    /\ ana_sorted = <<>>
    /\ ana_compared = <<>>
    /\ ana_warnings = <<>>
    /\ ana_pc = "start"
    /\ Idle("analyze")

AnalyzeChain ==
    /\ ana_pc = "start"
    /\ \E result \in {analyze_chain(ana_documents)} :
          /\ ana_sorted' = result.sorted_docs
          /\ ana_compared' = result.compared
          /\ ana_warnings' = result.warnings
    /\ ana_pc' = "done"
    /\ UNCHANGED <<ana_documents, invVars, cmpVars, docVars, mrgVars, chnVars, extVars, nmVars, dkVars>>

NextAnalyze == AnalyzeChain

SpecAnalyze == InitAnalyze /\ [][NextAnalyze]_vars

\* the date of the document at position k of the returned sequence
DateAt(k) == _parsed_record_date(ana_documents[ana_sorted[k]].recordDate)

\* the positions of the returned sequence holding a document with a
\* parseable record date
DatedOutput == {k \in 1..Len(ana_sorted) : DateAt(k) # <<>>}

\* C3: analyze_chain returns a permutation of its input in which the
\* documents with a parseable recordDate come first, in non-decreasing date
\* order, followed by the documents with a missing or unparseable
\* recordDate in their relative input order
C3_DatedSortedUndatedStable ==
    ana_pc = "done" =>
        /\ Len(ana_sorted) = Len(ana_documents)
        /\ {ana_sorted[k] : k \in 1..Len(ana_sorted)} = 1..Len(ana_documents)
        /\ \A j, k \in 1..Len(ana_sorted) :
              j < k =>
                /\ k \in DatedOutput => j \in DatedOutput
                /\ j \in DatedOutput /\ k \in DatedOutput => DateLE(DateAt(j), DateAt(k))
                /\ j \notin DatedOutput /\ k \notin DatedOutput =>
                      ana_sorted[j] < ana_sorted[k]

\* two dated documents arriving out of order, written in two formats,
\* behind an undated one
C3_Witness ==
    /\ ana_pc = "done"
    /\ Len(ana_documents) = 3
    /\ ana_documents[1].recordDate = str_None
    /\ ana_documents[2].recordDate = str_date_long
    /\ ana_documents[3].recordDate = str_date_iso
    /\ ana_sorted = <<3, 2, 1>>

\* the timeline-gap warnings among the returned warnings
GapWarnings == SelectSeq(ana_warnings, LAMBDA w : w[1] = "Large time gap")

\* the days from the document at position i of the returned sequence to
\* the next one
DaysApart(i) == DaysBetween(DateAt(i), DateAt(i + 1))

\* the positions of the returned sequence followed by a dated document
\* more than 5 years of 365.25 days later
LongGaps ==
    {i \in 1..(Len(ana_sorted) - 1) :
        /\ i \in DatedOutput /\ i + 1 \in DatedOutput
        /\ 4 * DaysApart(i) > 5 * 1461}

\* C13: analyze_chain emits exactly one timeline-gap warning for each pair
\* of chronologically consecutive dated documents whose record dates are
\* more than 5 years apart (days / 365.25 > 5) and none for any other pair;
\* the warning cites the two documents' positions in the returned sequence
\* and the gap truncated to whole years
C13_OneWarningPerLongGap ==
    ana_pc = "done" =>
        /\ Len(GapWarnings) = Cardinality(LongGaps)
        /\ {GapWarnings[k] : k \in 1..Len(GapWarnings)} =
              {<<"Large time gap", (4 * DaysApart(i)) \div 1461, i, i + 1>> : i \in LongGaps}

\* documents recorded 2024-02-29, 2012-03-05 and 2019-02-28: the gaps are
\* 2551 days and 1827 days, one day more than the 1826 days that
\* 5 * 365.25 rounds down to
C13_Witness ==
    /\ ana_pc = "done"
    /\ Len(ana_documents) = 3
    /\ ana_documents[1].recordDate = str_date_iso
    /\ ana_documents[2].recordDate = str_date_abbr
    /\ ana_documents[3].recordDate = str_date_dash
    /\ ana_warnings = << <<"Large time gap", 6, 1, 2>>, <<"Large time gap", 5, 2, 3>> >>

\* the positions before i of the returned sequence whose document has a
\* legal description matching that of the document at position i
PriorMatches(i) ==
    {j \in 1..(i - 1) :
        _descriptions_match(ana_documents[ana_sorted[i]].legalDescription,
                            ana_documents[ana_sorted[j]].legalDescription)}

\* C14: after analyze_chain, for every document at position i of the
\* returned sequence: if some document at a position j < i has a legal
\* description matching it, isSameAsPrior is true and sameAsEntryNumber is
\* the smallest such j; if no prior document matches (including when the
\* document's own description is empty), isSameAsPrior is false
C14_SameAsFirstPriorMatch ==
    ana_pc = "done" =>
        \A i \in 1..Len(ana_sorted) :
            IF PriorMatches(i) # {}
            THEN /\ ana_compared[i].isSameAsPrior
                 /\ ana_compared[i].sameAsEntryNumber = SetMin(PriorMatches(i))
            ELSE ~ana_compared[i].isSameAsPrior

\* C28: after analyze_chain, every returned document whose
\* legalDescriptionComparison has isSameAsPrior true has a
\* sameAsEntryNumber between 1 and its own 1-based position minus 1, so the
\* warning that a document references an entry which comes after it is
\* never emitted
C28_SameAsRefersBack ==
    ana_pc = "done" =>
        /\ \A i \in 1..Len(ana_compared) :
              ana_compared[i].isSameAsPrior =>
                  ana_compared[i].sameAsEntryNumber \in 1..(i - 1)
        /\ \A k \in 1..Len(ana_warnings) :
              ana_warnings[k][1] # "References entry which comes after it"

-----------------------------------------------------------------------------
(* Relationship detection and chain building                               *)
(*                                                                         *)
(* RelationshipDetector.analyze_all_documents compares the parsed legal    *)
(* descriptions of all pairs of documents, groups the documents into       *)
(* chains and links the chains of split parcels; ChainBuilder.build_chains *)
(* takes its result, verifies the grantor/grantee succession inside each   *)
(* chain and reports overlaps between chains.  A document is its parsed    *)
(* legal description (what LegalDescriptionParser.parse returns for        *)
(* property.legalDescription), documentType, dates.recordDate,             *)
(* parties.from, parties.to and recording.locationInstrumentNumber.  A     *)
(* chain id "chain_k" is the number k; parent 0 is None.                   *)

MaxChainDocs == 4
MaxBuilds == 2

str_Warranty_Deed  == <<"W", "a", "r", "r", "a", "n", "t", "y", " ", "D", "e", "e", "d">>
str_date_1999      == <<"1", "2", "/", "3", "1", "/", "1", "9", "9", "9">>
str_date_2005      == <<"0", "1", "/", "1", "5", "/", "2", "0", "0", "5">>
str_Unknown        == <<"U", "n", "k", "n", "o", "w", "n">>

\* the printable ASCII characters in code point order, from 32 to 95
AsciiLow ==
    <<" ", "!", "\"", "#", "$", "%", "&", "'", "(", ")", "*", "+", ",", "-", ".", "/">>
    \o <<"0", "1", "2", "3", "4", "5", "6", "7", "8", "9", ":", ";", "<", "=", ">", "?">>
    \o <<"@", "A", "B", "C", "D", "E", "F", "G", "H", "I", "J", "K", "L", "M", "N", "O">>
    \o <<"P", "Q", "R", "S", "T", "U", "V", "W", "X", "Y", "Z", "[", "\\", "]", "^", "_">>

\* and from 97, the lower case letters first
AsciiHigh ==
    <<"a", "b", "c", "d", "e", "f", "g", "h", "i", "j", "k", "l", "m", "n", "o">>
    \o <<"p", "q", "r", "s", "t", "u", "v", "w", "x", "y", "z", "{", "|", "}", "~">>

ord(c) ==
    IF \E k \in 1..Len(AsciiLow) : AsciiLow[k] = c
    THEN 31 + CHOOSE k \in 1..Len(AsciiLow) : AsciiLow[k] = c
    ELSE 96 + CHOOSE k \in 1..Len(AsciiHigh) : AsciiHigh[k] = c

\* tuple comparison of two sort keys
RECURSIVE KeyLess(_, _)
KeyLess(k1, k2) ==
    IF k2 = <<>> THEN FALSE
    ELSE IF k1 = <<>> THEN TRUE
    ELSE IF k1[1] # k2[1] THEN k1[1] < k2[1]
    ELSE KeyLess(Tail(k1), Tail(k2))

KeyLE(k1, k2) == k1 = k2 \/ KeyLess(k1, k2)

\* the code points of a string: strings compare as these tuples do
Ords(s) == [k \in 1..Len(s) |-> ord(s[k])]

\* list.sort on <<key, item>> pairs: stable, a pair goes behind the pairs
\* of the sorted rest with a smaller key
InsertStable(rest, x, before) ==
    IF before = {} THEN <<x>> \o rest
    ELSE SubSeq(rest, 1, SetMax(before)) \o <<x>> \o SubSeq(rest, SetMax(before) + 1, Len(rest))

SortInsert(rest, x) ==
    InsertStable(rest, x, {k \in 1..Len(rest) : KeyLess(rest[k][1], x[1])})

RECURSIVE SortPairs(_)
SortPairs(pairs) ==
    IF pairs = <<>> THEN <<>>
    ELSE SortInsert(SortPairs(Tail(pairs)), Head(pairs))

Items(pairs) == [k \in 1..Len(pairs) |-> pairs[k][2]]

\* list.sort(key=Key) and sorted(list, key=Key)
SortStable(list, Key(_)) == Items(SortPairs([k \in 1..Len(list) |-> <<Key(list[k]), list[k]>>]))

\* sorted(list(doc_ids))
RECURSIVE SortedIds(_)
SortedIds(S) == IF S = {} THEN <<>> ELSE <<SetMin(S)>> \o SortedIds(S \ {SetMin(S)})

str_John_Smith         == <<"J", "o", "h", "n", " ", "S", "m", "i", "t", "h">>
str_J_Smith            == <<"J", ".", " ", "S", "m", "i", "t", "h">>
str_JOHN_SMITH_JR      == <<"J", "O", "H", "N", " ", "S", "M", "I", "T", "H", " ", "J", "R", ".">>
str_Mary_Jones         == <<"M", "a", "r", "y", " ", "J", "o", "n", "e", "s">>
str_Acme_Corporation   == <<"A", "c", "m", "e", " ", "C", "o", "r", "p", "o", "r", "a", "t", "i", "o", "n">>
str_Acme_Corp          == <<"A", "c", "m", "e", " ", "C", "o", "r", "p", ".">>
str_BOOK_12_PAGE_7     == <<"B", "O", "O", "K", "1", "2", " ", "P", "A", "G", "E", " ", "7">>
str_Book_12_Page_3     == <<"B", "o", "o", "k", " ", "1", "2", ",", " ", "P", "a", "g", "e", " ", "3">>
str_Inst_5             == <<"I", "n", "s", "t", ".", " ", "5">>
str_date_2001          == <<"M", "a", "r", "c", "h", " ", "1", ",", " ", "2", "0", "0", "1">>
str_date_circa         == <<"c", "i", "r", "c", "a", " ", "1", "9", "5", "0">>
str_date_unparsed      == <<"n", ".", "d", ".">>

suffixes ==
    <<<<" ", "j", "r", ".">>, <<" ", "j", "r">>, <<" ", "s", "r", ".">>, <<" ", "s", "r">>, <<" ", "i", "i">>, <<" ", "i", "i", "i">>, <<" ", "i", "v">>>>

corporate_replacements ==
    << <<<<"c", "o", "r", "p", "o", "r", "a", "t", "i", "o", "n">>,
         <<"c", "o", "r", "p">>>>,
       <<<<"i", "n", "c", "o", "r", "p", "o", "r", "a", "t", "e", "d">>,
         <<"i", "n", "c">>>>,
       <<<<"c", "o", "m", "p", "a", "n", "y">>,
         <<"c", "o">>>>,
       <<<<"l", "i", "m", "i", "t", "e", "d">>,
         <<"l", "t", "d">>>>,
       <<<<"l", "i", "m", "i", "t", "e", "d", " ", "l", "i", "a", "b", "i", "l", "i", "t", "y", " ", "c", "o", "m", "p", "a", "n", "y">>,
         <<"l", "l", "c">>>>,
       <<<<"l", ".", "l", ".", "c", ".">>,
         <<"l", "l", "c">>>> >>

corporate_marks == {<<"c", "o", "r", "p">>, <<"i", "n", "c">>, <<"l", "l", "c">>, <<"c", "o", "m", "p", "a", "n", "y">>, <<"c", "o">>}
corporate_words == {<<"c", "o", "r", "p">>, <<"i", "n", "c">>, <<"l", "l", "c">>, <<"c", "o">>, <<"c", "o", "m", "p", "a", "n", "y">>, <<"l", "t", "d">>}
kw_book == <<"b", "o", "o", "k">>
kw_page == <<"p", "a", "g", "e">>

\* a parsed description with a deed reference, a tax parcel id and lots
Parsed(deed_reference, tax_parcel_id, lot_numbers) ==
    [metes_bounds |-> <<>>, deed_reference |-> deed_reference,
     tax_parcel_id |-> tax_parcel_id, lot_numbers |-> lot_numbers,
     street_address |-> <<>>, subdivision |-> <<>>]

ChainInput(parsed, document_type, record_date, from, to, recording) ==
    [parsed |-> parsed, documentType |-> document_type, recordDate |-> record_date,
     from |-> from, to |-> to, recording |-> recording]

\* the year found by re.search(r'\b(19|20)\d{2}\b', date_str), 0 for none
IsWordChar(c) == c = "_" \/ IsDigit(c) \/ LowerChar(c) # c \/ \E k \in 1..26 : LowerCase[k] = c

YearAt(s, pos) ==
    /\ pos + 3 <= Len(s)
    /\ <<s[pos], s[pos + 1]>> \in {<<"1", "9">>, <<"2", "0">>}
    /\ IsDigit(s[pos + 2]) /\ IsDigit(s[pos + 3])
    /\ ~IsWordChar(CharAt(s, pos - 1))
    /\ ~IsWordChar(CharAt(s, pos + 4))

YearSearch(s) == FirstOf({pos \in 1..Len(s) : YearAt(s, pos)})

sort_key_formats ==
    << <<"%B", " ", "%d", ",", " ", "%Y">>,
       <<"%m", "/", "%d", "/", "%Y">>,
       <<"%Y", "-", "%m", "-", "%d">>,
       <<"%B", " ", "%d", " ", "%Y">> >>

unknown_key == <<9999, 12, 31>>

YearKey(s, pos) == IF pos = 0 THEN unknown_key ELSE <<DigitsValue(s, pos, 4), 1, 1>>

RECURSIVE SortKeyWith(_, _)
SortKeyWith(s, k) ==
    IF k > Len(sort_key_formats) THEN YearKey(s, YearSearch(s))
    ELSE IF strptime(s, sort_key_formats[k]) # <<>> THEN strptime(s, sort_key_formats[k])
    ELSE SortKeyWith(s, k + 1)

\* _date_sort_key of both classes
_date_sort_key(date_str) ==
    IF date_str = <<>> \/ date_str = str_Unknown THEN unknown_key
    ELSE SortKeyWith(date_str, 1)

\* the record dates of the inputs and their sort keys
ChainDates ==
    {<<>>, str_Unknown, str_date_1999, str_date_2005, str_date_2001, str_date_circa,
     str_date_unparsed}

DateSortKeys == {<<d, _date_sort_key(d)>> : d \in ChainDates}

DateSortKey(date_str) == (CHOOSE p \in DateSortKeys : p[1] = date_str)[2]

\* step 2: the relationship of every pair doc_a < doc_b, in the order of
\* the two nested loops
RECURSIVE PairsFrom(_, _, _)
PairsFrom(a, b, n) ==
    IF a >= n THEN <<>>
    ELSE IF b > n THEN PairsFrom(a + 1, a + 2, n)
    ELSE << <<a, b>> >> \o PairsFrom(a, b + 1, n)

Relationship(docs, pair) ==
    [doc_a |-> pair[1], doc_b |-> pair[2],
     relationship |-> compare(docs[pair[1]].parsed, docs[pair[2]].parsed)]

RelationshipsOf(docs, pairs) == [k \in 1..Len(pairs) |-> Relationship(docs, pairs[k])]

Relationships(docs) == RelationshipsOf(docs, PairsFrom(1, 2, Len(docs)))

\* lines 72-83: the first chain that has doc_a or doc_b takes both, and
\* without one they start the next chain
FirstChainWith(chain_groups, doc_a, doc_b) ==
    FirstOf({c \in 1..Len(chain_groups) : doc_a \in chain_groups[c] \/ doc_b \in chain_groups[c]})

\* a variant of lines 79-81 that adds doc_a alone to the chain found
AddSame_first_only(chain_groups, doc_a, doc_b, chain_id) ==
    IF chain_id # 0
    THEN [chain_groups EXCEPT ![chain_id] = @ \cup {doc_a}]
    ELSE Append(chain_groups, {doc_a, doc_b})

\* lines 79-85
AddSame(chain_groups, doc_a, doc_b, chain_id) ==
    IF chain_id # 0
    THEN [chain_groups EXCEPT ![chain_id] = @ \cup {doc_a, doc_b}]
    ELSE Append(chain_groups, {doc_a, doc_b})

\* lines 66-86
RECURSIVE GroupSame(_, _)
GroupSame(relationships, chain_groups) ==
    IF relationships = <<>> THEN chain_groups
    ELSE IF Head(relationships).relationship # "SAME"
    THEN GroupSame(Tail(relationships), chain_groups)
    ELSE GroupSame(Tail(relationships),
                   AddSame(chain_groups, Head(relationships).doc_a, Head(relationships).doc_b,
                           FirstChainWith(chain_groups, Head(relationships).doc_a,
                                          Head(relationships).doc_b)))

IsDeed(document_type) == Contains(Lower(document_type), kw_deed)

\* a variant of lines 96-103 that leaves every orphan without a chain
GroupSingles_none(docs, doc_id, processed, chain_groups) == chain_groups

\* lines 95-101: a deed outside every chain gets a chain of its own
RECURSIVE GroupSingles(_, _, _, _)
GroupSingles(docs, doc_id, processed, chain_groups) ==
    IF doc_id > Len(docs) THEN chain_groups
    ELSE IF doc_id \notin processed /\ IsDeed(docs[doc_id].documentType)
    THEN GroupSingles(docs, doc_id + 1, processed, Append(chain_groups, {doc_id}))
    ELSE GroupSingles(docs, doc_id + 1, processed, chain_groups)

Processed(chain_groups) == UNION {chain_groups[c] : c \in 1..Len(chain_groups)}

GroupAll(docs, same_groups) == GroupSingles(docs, 1, Processed(same_groups), same_groups)

\* the documents of a chain from the earliest sort key on; a set of small
\* integers is iterated in increasing order and the sort is stable
ByDate(docs, doc_ids) ==
    SortStable(doc_ids, LAMBDA x : DateSortKey(docs[x].recordDate))

Dated(docs, doc_ids) == SelectSeq(doc_ids, LAMBDA x : docs[x].recordDate # <<>>)

EarliestOf(docs, dated) == IF dated = <<>> THEN str_Unknown ELSE docs[dated[1]].recordDate

\* lines 196-209
_get_earliest_date(doc_ids, docs) == EarliestOf(docs, ByDate(docs, Dated(docs, doc_ids)))

FirstOwnerOf(first_doc) == IF first_doc.from # <<>> THEN first_doc.from[1] ELSE str_Unknown

\* lines 177-194
_get_first_owner(doc_ids, docs) == FirstOwnerOf(docs[ByDate(docs, doc_ids)[1]])

\* lines 104-127
Chain(docs, chain_id, doc_ids) ==
    [chain_id |-> chain_id, document_ids |-> doc_ids,
     first_owner |-> _get_first_owner(doc_ids, docs),
     earliest_date |-> _get_earliest_date(doc_ids, docs),
     parent |-> 0, children |-> <<>>]

Chains(docs, chain_groups) ==
    [c \in 1..Len(chain_groups) |-> Chain(docs, c, SortedIds(chain_groups[c]))]

\* lines 259-267: the last chain of the list that has the document
ChainOf(chains, doc_id) ==
    IF \E c \in 1..Len(chains) : \E k \in 1..Len(chains[c].document_ids) : chains[c].document_ids[k] = doc_id
    THEN SetMax({c \in 1..Len(chains) : \E k \in 1..Len(chains[c].document_ids) : chains[c].document_ids[k] = doc_id})
    ELSE 0

InList(list, x) == \E k \in 1..Len(list) : list[k] = x

\* lines 270-273
MarkSplit(chains, subset_chain, superset_chain) ==
    IF subset_chain = 0 \/ superset_chain = 0 \/ subset_chain = superset_chain THEN chains
    ELSE [c \in 1..Len(chains) |->
            [chains[c] EXCEPT
                !.parent = IF c = subset_chain THEN chains[superset_chain].chain_id ELSE @,
                !.children = IF c = superset_chain /\ ~InList(@, chains[subset_chain].chain_id)
                             THEN Append(@, chains[subset_chain].chain_id) ELSE @]]

\* the subset and the superset document of a relationship
SubsetDoc(rel) == IF rel.relationship = "SUBSET" THEN rel.doc_a ELSE rel.doc_b
SupersetDoc(rel) == IF rel.relationship = "SUBSET" THEN rel.doc_b ELSE rel.doc_a

\* lines 242-276
RECURSIVE _detect_splits(_, _)
_detect_splits(chains, relationships) ==
    IF relationships = <<>> THEN chains
    ELSE IF Head(relationships).relationship \notin {"SUBSET", "SUPERSET"}
    THEN _detect_splits(chains, Tail(relationships))
    ELSE _detect_splits(MarkSplit(chains, ChainOf(chains, SubsetDoc(Head(relationships))),
                                  ChainOf(chains, SupersetDoc(Head(relationships)))),
                        Tail(relationships))

\* line 135: chains.sort(key=lambda c: c['earliest_date']) compares the
\* date strings
SortChains(chains) == SortStable(chains, LAMBDA c : Ords(c.earliest_date))

\* lines 59-137
_build_chains(docs, relationships) ==
    SortChains(_detect_splits(Chains(docs, GroupAll(docs, GroupSame(relationships, <<>>))),
                              relationships))

ChainsData(relationships, chains) == [relationships |-> relationships, chains |-> chains]

AnalyzedWith(docs, relationships) == ChainsData(relationships, _build_chains(docs, relationships))

\* lines 13-56
analyze_all_documents(docs) == AnalyzedWith(docs, Relationships(docs))

EndsWith(s, suffix) ==
    Len(s) >= Len(suffix) /\ SubSeq(s, Len(s) - Len(suffix) + 1, Len(s)) = suffix

\* lines 276-279: each suffix in turn is cut from what the earlier ones left
RECURSIVE CutSuffixes(_, _)
CutSuffixes(name, k) ==
    IF k > Len(suffixes) THEN name
    ELSE IF EndsWith(name, suffixes[k])
    THEN CutSuffixes(Strip(SubSeq(name, 1, Len(name) - Len(suffixes[k]))), k + 1)
    ELSE CutSuffixes(name, k + 1)

\* lines 282-291
RECURSIVE ReplaceCorporate(_, _)
ReplaceCorporate(name, k) ==
    IF k > Len(corporate_replacements) THEN name
    ELSE ReplaceCorporate(Replace(name, corporate_replacements[k][1], corporate_replacements[k][2]), k + 1)

\* re.sub(r"[,\.']", '', name)
Unpunctuated(name) == SelectSeq(name, LAMBDA c : c \notin {",", ".", "'"})

\* lines 266-299
_normalize_name(name) ==
    IF name = <<>> THEN <<>>
    ELSE Strip(CollapseSpaces(Unpunctuated(ReplaceCorporate(CutSuffixes(Strip(Lower(name)), 1), 1))))

\* str.split(): the words between runs of white space
RECURSIVE Split(_)
SplitWord(s, word) == <<word>> \o Split(SubSeq(s, Len(word) + 1, Len(s)))

Split(s) ==
    IF s = <<>> THEN <<>>
    ELSE IF IsSpace(s[1]) THEN Split(Tail(s))
    ELSE SplitWord(s, SubSeq(s, 1, FirstOf({k \in 1..Len(s) : IsSpace(CharAt(s, k + 1)) \/ k = Len(s)})))

IsCorporate(name) == \E mark \in corporate_marks : Contains(name, mark)

SignificantWords(parts) == SelectSeq(parts, LAMBDA w : w \notin corporate_words)

\* lines 325-328: matches >= min(2, len(words1), len(words2))
EnoughWordsMatch(words1, words2) ==
    Len(SelectSeq(words1, LAMBDA w : InList(words2, w)))
        >= SetMin({2, Len(words1), Len(words2)})

IsInitialOf(first1, first2) ==
    Len(first1) = 1 /\ first2 # <<>> /\ first2[1] = first1[1]

\* lines 337-345: the first words are equal, or one is the initial of the other
FirstNamesMatch(first1, first2) ==
    first1 = first2 \/ IsInitialOf(first1, first2) \/ IsInitialOf(first2, first1)

\* lines 331-348: with equal last words the first words are compared
\* where both names have two words or more, and line 348 returns True
\* after the comparison whatever it found
LastNamesMatch(parts1, parts2) ==
    /\ parts1[Len(parts1)] = parts2[Len(parts2)]
    /\ IF Len(parts1) >= 2 /\ Len(parts2) >= 2 /\ FirstNamesMatch(parts1[1], parts2[1])
       THEN TRUE
       ELSE TRUE

PartsMatch(name1, name2, parts1, parts2) ==
    IF parts1 = <<>> \/ parts2 = <<>> THEN FALSE
    ELSE \/ /\ IsCorporate(name1) \/ IsCorporate(name2)
            /\ EnoughWordsMatch(SignificantWords(parts1), SignificantWords(parts2))
         \/ LastNamesMatch(parts1, parts2)

\* lines 301-351
_names_match(name1, name2) ==
    name1 = name2 \/ PartsMatch(name1, name2, Split(name1), Split(name2))

\* re.search of the keyword in any case, white space and digits: the
\* number after the first occurrence that has one, 99999 for none
DigitRun(s, pos) == Len(RunOf(s, pos, {Digits[k] : k \in 1..10}))

KeywordAt(s, pos, keyword) ==
    /\ Lower(SubSeq(s, pos, pos + Len(keyword) - 1)) = keyword
    /\ DigitRun(s, SkipSpaces(s, pos + Len(keyword))) > 0

NumberAt(s, pos) == DigitsValue(s, pos, DigitRun(s, pos))

NumberOf(s, keyword, found) ==
    IF found = 0 THEN 99999 ELSE NumberAt(s, SkipSpaces(s, found + Len(keyword)))

KeywordNumber(s, keyword) ==
    NumberOf(s, keyword, FirstOf({pos \in 1..Len(s) : pos + Len(keyword) - 1 <= Len(s) /\ KeywordAt(s, pos, keyword)}))

\* lines 376-391
_recording_sort_key(recording) ==
    IF recording = <<>> THEN <<99999, 99999>>
    ELSE <<KeywordNumber(recording, kw_book), KeywordNumber(recording, kw_page)>>

\* the party names of the inputs, normalized and matched
PartyNames ==
    {str_Al, str_Bo, str_Cy, str_John_Smith, str_J_Smith, str_JOHN_SMITH_JR, str_Mary_Jones,
     str_Acme_Corporation, str_Acme_Corp}

NormalizedNames == {<<n, _normalize_name(n)>> : n \in PartyNames}

NormalizedName(name) == (CHOOSE p \in NormalizedNames : p[1] = name)[2]

MatchingNames ==
    {<<pair[1], pair[2], _names_match(NormalizedName(pair[1]), NormalizedName(pair[2]))>> :
        pair \in PartyNames \X PartyNames}

\* _names_match(_normalize_name(grantee), _normalize_name(grantor))
NamesMatch(grantee, grantor) == <<grantee, grantor, TRUE>> \in MatchingNames

\* the recording locators of the inputs and their sort keys
Recordings == {<<>>, str_BOOK_12_PAGE_7, str_Book_12_Page_3, str_Inst_5}

RecordingSortKeys == {<<r, _recording_sort_key(r)>> : r \in Recordings}

RecordingSortKey(recording) == (CHOOSE p \in RecordingSortKeys : p[1] = recording)[2]

\* lines 69-72: the key a chain's documents are sorted by
EnrichKey(doc) == DateSortKey(doc.recordDate) \o RecordingSortKey(doc.recording)

\* lines 57-72: the documents of a chain by date, then book and page
ChainDocs(docs, document_ids) ==
    SortStable(document_ids, LAMBDA x : EnrichKey(docs[x]))

NormalizedSetOf(names) == {NormalizedName(names[k]) : k \in 1..Len(names)}

\* lines 146-167
_is_duplicate_deed(deed1, deed2) ==
    \/ deed1.recording # <<>> /\ deed2.recording # <<>> /\ deed1.recording = deed2.recording
    \/ /\ deed1.recordDate = deed2.recordDate
       /\ NormalizedSetOf(deed1.from) = NormalizedSetOf(deed2.from)
       /\ NormalizedSetOf(deed1.to) = NormalizedSetOf(deed2.to)

\* lines 115-127
MatchFound(current_to, next_from) ==
    \E g \in 1..Len(current_to) : \E h \in 1..Len(next_from) :
        NamesMatch(current_to[g], next_from[h])

\* lines 100-129: whether deeds[i] and deeds[i + 1] break the chain
Breaks(docs, deeds, i) ==
    /\ ~_is_duplicate_deed(docs[deeds[i]], docs[deeds[i + 1]])
    /\ docs[deeds[i]].to # <<>> /\ docs[deeds[i + 1]].from # <<>>
    /\ ~MatchFound(docs[deeds[i]].to, docs[deeds[i + 1]].from)

BrokenChain(chain_id, doc_a, doc_b) ==
    [type |-> "BROKEN_CHAIN", severity |-> "CRITICAL", chain_id |-> chain_id,
     doc_a |-> doc_a, doc_b |-> doc_b]

\* a variant that cites the later deed twice
BrokenIssues_later_twice(chain_id, deeds, broken) ==
    [k \in 1..Len(broken) |-> BrokenChain(chain_id, deeds[broken[k] + 1], deeds[broken[k] + 1])]

\* lines 131-142
BrokenIssues(chain_id, deeds, broken) ==
    [k \in 1..Len(broken) |-> BrokenChain(chain_id, deeds[broken[k]], deeds[broken[k] + 1])]

BrokenPairs(docs, deeds) ==
    PositionsIn({i \in 1..(Len(deeds) - 1) : Breaks(docs, deeds, i)}, Len(deeds) - 1)

\* line 95
Deeds(docs, chain_docs) == SelectSeq(chain_docs, LAMBDA x : IsDeed(docs[x].documentType))

\* lines 87-144: the issues of a chain
ChainIssues(docs, chain_id, deeds) == BrokenIssues(chain_id, deeds, BrokenPairs(docs, deeds))

\* mutant: a chain of fewer than two deeds keeps the False that
\* _enrich_chains gave it
Verified_unset(deeds, broken) == Len(deeds) >= 2 /\ broken = <<>>

\* lines 97-99 and 144: chain['verified'], broken being the pairs of
\* line 130
Verified(deeds, broken) == IF Len(deeds) < 2 THEN TRUE ELSE broken = <<>>

\* lines 78-83, with the issues and the flag _verify_party_connections sets
Enriched(chain, chain_docs, issues, verified) ==
    [chain_id |-> chain.chain_id, document_ids |-> chain.document_ids,
     first_owner |-> chain.first_owner, earliest_date |-> chain.earliest_date,
     parent |-> chain.parent, children |-> chain.children,
     documents |-> chain_docs, issues |-> issues, verified |-> verified]

EnrichedWith(docs, chain, chain_docs) ==
    Enriched(chain, chain_docs, ChainIssues(docs, chain.chain_id, Deeds(docs, chain_docs)),
             Verified(Deeds(docs, chain_docs), BrokenPairs(docs, Deeds(docs, chain_docs))))

\* _enrich_chains and _verify_party_connections of every chain
VerifiedChains(docs, chains) ==
    [c \in 1..Len(chains) |-> EnrichedWith(docs, chains[c], ChainDocs(docs, chains[c].document_ids))]

RECURSIVE Flatten(_)
Flatten(lists) == IF lists = <<>> THEN <<>> ELSE Head(lists) \o Flatten(Tail(lists))

\* the issues _verify_party_connections appends to self.issues, chain by chain
VerifyIssues(enriched) == Flatten([c \in 1..Len(enriched) |-> enriched[c].issues])

Overlap(rel, chain_a, chain_b) ==
    [type |-> "OVERLAP", severity |-> "CRITICAL", doc_a |-> rel.doc_a, doc_b |-> rel.doc_b,
     chain_a |-> chain_a, chain_b |-> chain_b]

\* lines 177-181: the chain of a document is the last one that lists it
Overlaps(chains, rel) ==
    /\ rel.relationship = "PARTIAL_OVERLAP"
    /\ ChainOf(chains, rel.doc_a) # 0 /\ ChainOf(chains, rel.doc_b) # 0
    /\ ChainOf(chains, rel.doc_a) # ChainOf(chains, rel.doc_b)

OverlapsOf(chains, relationships, overlapping) ==
    [k \in 1..Len(overlapping) |->
        Overlap(relationships[overlapping[k]],
                chains[ChainOf(chains, relationships[overlapping[k]].doc_a)].chain_id,
                chains[ChainOf(chains, relationships[overlapping[k]].doc_b)].chain_id)]

\* lines 169-193: the issues _detect_overlaps appends to self.issues
_detect_overlaps(chains, relationships) ==
    OverlapsOf(chains, relationships,
               PositionsIn({k \in 1..Len(relationships) : Overlaps(chains, relationships[k])},
                           Len(relationships)))

CountWhere(list, Test(_)) == Len(SelectSeq(list, Test))

RECURSIVE SumOf(_)
SumOf(numbers) == IF numbers = <<>> THEN 0 ELSE Head(numbers) + SumOf(Tail(numbers))

\* lines 246-264, issues being self.issues
_build_summary(chains, issues) ==
    [total_chains |-> Len(chains),
     verified_chains |-> CountWhere(chains, LAMBDA c : c.verified),
     total_documents |-> SumOf([c \in 1..Len(chains) |-> Len(chains[c].document_ids)]),
     total_issues |-> Len(issues),
     issues_by_severity |->
        [CRITICAL |-> CountWhere(issues, LAMBDA i : i.severity = "CRITICAL"),
         WARNING |-> CountWhere(issues, LAMBDA i : i.severity = "WARNING"),
         INFO |-> CountWhere(issues, LAMBDA i : i.severity = "INFO")]]

\* next((c for c in all_chains if c['chain_id'] == child_id), None), as a
\* position in all_chains and 0 for None
ChildChain(all_chains, child_id) ==
    FirstOf({c \in 1..Len(all_chains) : all_chains[c].chain_id = child_id})

\* the children ids of a chain that name a chain
ChildChains(chain, all_chains) ==
    SelectSeq([k \in 1..Len(chain.children) |-> ChildChain(all_chains, chain.children[k])],
              LAMBDA c : c # 0)

\* lines 224-244 call themselves once per child and have no other end: a
\* call at a depth beyond the number of chains is in a cycle of children
\* lists, which the interpreter ends with RecursionError
RECURSIVE RecursionOverflows(_, _, _)
RecursionOverflows(chain, all_chains, depth) ==
    \/ depth > Len(all_chains)
    \/ \E k \in 1..Len(ChildChains(chain, all_chains)) :
          RecursionOverflows(all_chains[ChildChains(chain, all_chains)[k]], all_chains, depth + 1)

HierarchyNode(chain, children) ==
    [chain_id |-> chain.chain_id, first_owner |-> chain.first_owner,
     document_ids |-> chain.document_ids, verified |-> chain.verified,
     issues |-> chain.issues, children |-> children]

\* lines 224-244, where the recursion ends
RECURSIVE _build_hierarchy_node(_, _)
_build_hierarchy_node(chain, all_chains) ==
    HierarchyNode(chain,
                  [k \in 1..Len(ChildChains(chain, all_chains)) |->
                      _build_hierarchy_node(all_chains[ChildChains(chain, all_chains)[k]], all_chains)])

\* line 216: the chains without a parent, in the order of the list
root_chains(chains) == SelectSeq(chains, LAMBDA c : c.parent = 0)

\* lines 211-222
_build_hierarchy(chains) ==
    [r \in 1..Len(root_chains(chains)) |-> _build_hierarchy_node(root_chains(chains)[r], chains)]

\* the exception _build_hierarchy ends with, "" where it returns
HierarchyError(chains) ==
    IF \E r \in 1..Len(root_chains(chains)) : RecursionOverflows(root_chains(chains)[r], chains, 1)
    THEN "RecursionError" ELSE ""

\* lines 46-51: the value returned, and no value where the hierarchy raised
Returned_value(enriched, issues) ==
    [chains |-> enriched, hierarchy |-> _build_hierarchy(enriched), issues |-> issues,
     summary |-> _build_summary(enriched, issues)]

Built(enriched, issues, raised) ==
    [raised |-> raised, issues |-> issues,
     value |-> IF raised = "" THEN Returned_value(enriched, issues) ELSE <<>>]

BuiltWith(enriched, relationships, self_issues) ==
    Built(enriched,
          self_issues \o VerifyIssues(enriched) \o _detect_overlaps(enriched, relationships),
          HierarchyError(enriched))

\* lines 15-51: the outcome of build_chains when self.issues is self_issues
\* at the call: the exception raised or the value returned, and self.issues
\* after the call
build_chains(chains_data, docs, self_issues) ==
    BuiltWith(VerifiedChains(docs, chains_data.chains), chains_data.relationships, self_issues)

\* the parcels of the inputs: lots that nest and overlap, and parcels that
\* a deed reference or a tax parcel id joins
ChainParcels ==
    {Parsed(<<>>, <<>>, {1}), Parsed(<<>>, <<>>, {1, 2}), Parsed(<<>>, <<>>, {1, 3}),
     Parsed(<<>>, <<>>, {2, 3}), Parsed(<<str_12, str_7>>, <<>>, {1, 2}),
     Parsed(<<str_12, str_7>>, str_tax_1, {}), Parsed(<<>>, str_tax_1, {2, 3})}

ParcelDeed(parsed, record_date) ==
    ChainInput(parsed, str_Warranty_Deed, record_date, <<str_Al>>, <<str_Bo>>, <<>>)

\* deeds from Al to Bo of these parcels on one or two dates, a mortgage and
\* an undated deed
ParcelDocuments ==
    {ParcelDeed(p, str_date_1999) :
        p \in ChainParcels \ {Parsed(<<>>, <<>>, {1, 3})}}
    \cup
    {ParcelDeed(p, str_date_2005) :
        p \in {Parsed(<<>>, <<>>, {1, 3}), Parsed(<<>>, <<>>, {2, 3}),
                Parsed(<<>>, str_tax_1, {2, 3})}}
    \cup
    {ChainInput(Parsed(<<>>, <<>>, {1, 2}), str_Mortgage, str_date_1999,
                <<str_Bo>>, <<str_Cy>>, <<>>),
     ChainInput(Parsed(<<>>, <<>>, {1, 3}), str_Warranty_Deed, <<>>,
                <<str_Bo>>, <<str_Cy>>, <<>>),
     ChainInput(Parsed(<<>>, <<>>, {1, 2}), str_Warranty_Deed, str_date_2005,
                <<str_Bo>>, <<str_Cy>>, <<>>)}

\* the documents of one parcel: transfers between parties under several
\* spellings, with and without a grantor or a grantee
Transfers ==
    {<< <<str_Al>>, <<str_Bo>> >>, << <<str_Bo>>, <<str_Cy>> >>,
     << <<str_John_Smith>>, <<str_Mary_Jones, str_Al>> >>,
     << <<str_J_Smith>>, <<str_Acme_Corporation>> >>,
     << <<str_Acme_Corp>>, <<str_JOHN_SMITH_JR>> >>,
     << <<>>, <<str_Bo>> >>, << <<str_Cy>>, <<>> >>}

PartyDeed(record_date, transfer, recording) ==
    ChainInput(Parsed(<<>>, <<>>, {1, 2}), str_Warranty_Deed, record_date,
               transfer[1], transfer[2], recording)

PartyDocuments ==
    {PartyDeed(d, transfer, <<>>) : d \in {str_date_2001, str_date_2005}, transfer \in Transfers}
    \cup
    {PartyDeed(str_date_2001, << <<str_Al>>, <<str_Bo>> >>, r) : r \in Recordings \ {<<>>}}
    \cup
    {PartyDeed(d, << <<str_Bo>>, <<str_Cy>> >>, <<>>) :
        d \in {<<>>, str_date_circa, str_date_unparsed}}
    \cup
    {PartyDeed(str_date_2005, << <<str_Bo>>, <<str_Cy>> >>, str_BOOK_12_PAGE_7),
     ChainInput(Parsed(<<>>, <<>>, {1, 2}), str_Mortgage, str_date_2001,
                <<str_Bo>>, <<str_Cy>>, <<>>)}

MaxPartyDocs == 3

InitChains ==
    /\ chn_documents \in SeqsUpTo(ParcelDocuments, MaxChainDocs)
    /\ chn_data = <<>>
    /\ bld_issues = <<>>
    /\ bld_returned = <<>>
    /\ bld_error = ""
    /\ chn_pc = "start"
    /\ Idle("chains")

\* detector.analyze_all_documents(documents)
AnalyzeAllDocuments ==
    /\ chn_pc = "start"
    /\ chn_data' = analyze_all_documents(chn_documents)
    /\ chn_pc' = "analyzed"
    /\ UNCHANGED <<chn_documents, bld_issues, bld_returned, bld_error, invVars, cmpVars, docVars, mrgVars, anaVars, extVars, nmVars, dkVars>>

\* builder.build_chains(analysis, documents), on one ChainBuilder; an
\* exception ends the run
BuildChains ==
    /\ chn_pc = "analyzed"
    /\ bld_error = ""
    /\ Len(bld_returned) < MaxBuilds
    /\ \E result \in {build_chains(chn_data, chn_documents, bld_issues)} :
          /\ bld_issues' = result.issues
          /\ bld_error' = result.raised
          /\ bld_returned' = IF result.raised = "" THEN Append(bld_returned, result.value)
                             ELSE bld_returned
    /\ UNCHANGED <<chn_documents, chn_data, chn_pc, invVars, cmpVars, docVars, mrgVars, anaVars, extVars, nmVars, dkVars>>

NextChains == AnalyzeAllDocuments \/ BuildChains

SpecChains == InitChains /\ [][NextChains]_vars

InitParties ==
    /\ chn_documents \in SeqsUpTo(PartyDocuments, MaxPartyDocs)
    /\ chn_data = <<>>
    /\ bld_issues = <<>>
    /\ bld_returned = <<>>
    /\ bld_error = ""
    /\ chn_pc = "start"
    /\ Idle("chains")

SpecParties == InitParties /\ [][NextChains]_vars

\* the chains analyze_all_documents returned
ReturnedChains == chn_data.chains

KnownDate(chain) == chain.earliest_date # str_Unknown

\* C16: the chain list returned by analyze_all_documents is ordered
\* ascending by each chain's earliest record date compared
\* chronologically, and every chain with no known date comes after every
\* chain with a known date
C16_ChainsByEarliestDate ==
    chn_pc = "analyzed" =>
        \A i, j \in 1..Len(ReturnedChains) :
            i < j =>
                /\ KnownDate(ReturnedChains[j]) => KnownDate(ReturnedChains[i])
                /\ KnownDate(ReturnedChains[i]) /\ KnownDate(ReturnedChains[j]) =>
                      KeyLE(DateSortKey(ReturnedChains[i].earliest_date),
                            DateSortKey(ReturnedChains[j].earliest_date))

\* the returned chain with an id, and the ids returned
ChainWithId(id) == CHOOSE chain \in {ReturnedChains[k] : k \in 1..Len(ReturnedChains)} : chain.chain_id = id
ChainIds == {ReturnedChains[k].chain_id : k \in 1..Len(ReturnedChains)}

\* the chain n parent links above a chain, 0 where the links end
RECURSIVE AncestorAt(_, _)
AncestorAt(id, n) ==
    IF id = 0 \/ n = 0 THEN id ELSE AncestorAt(ChainWithId(id).parent, n - 1)

\* C17: the parent/child relation produced by analyze_all_documents is a
\* forest: no chain is its own ancestor, a chain id appears in the children
\* list of at most one chain, and chain c is in the children list of chain
\* p if and only if c's parent field is p
C17_ParentChildForest ==
    chn_pc = "analyzed" =>
        /\ \A c \in ChainIds : \A n \in 1..Len(ReturnedChains) : AncestorAt(c, n) # c
        /\ \A c, p, q \in ChainIds :
              InList(ChainWithId(p).children, c) /\ InList(ChainWithId(q).children, c) => p = q
        /\ \A c, p \in ChainIds :
              InList(ChainWithId(p).children, c) <=> ChainWithId(c).parent = p

\* the issues returned by the calls of build_chains so far
ReturnedIssues ==
    UNION {{bld_returned[n].issues[k] : k \in 1..Len(bld_returned[n].issues)} :
              n \in 1..Len(bld_returned)}

ValidId(doc_id) == doc_id \in 1..Len(chn_documents)

ListedIn(chain_id, doc_id) == chain_id \in ChainIds /\ InList(ChainWithId(chain_id).document_ids, doc_id)

\* C18: every issue emitted by build_chains (BROKEN_CHAIN or OVERLAP)
\* carries a doc_a and a doc_b that are two distinct valid 1-based ids of
\* the input document list, each belonging to a chain named by the issue
C18_IssuesCiteChainDocuments ==
    \A issue \in ReturnedIssues :
        /\ ValidId(issue.doc_a) /\ ValidId(issue.doc_b) /\ issue.doc_a # issue.doc_b
        /\ issue.type \in {"BROKEN_CHAIN", "OVERLAP"}
        /\ issue.type = "BROKEN_CHAIN" =>
              ListedIn(issue.chain_id, issue.doc_a) /\ ListedIn(issue.chain_id, issue.doc_b)
        /\ issue.type = "OVERLAP" =>
              ListedIn(issue.chain_a, issue.doc_a) /\ ListedIn(issue.chain_b, issue.doc_b)

\* one call has returned a broken chain and an overlap between two chains
C18_Witness ==
    /\ Len(bld_returned) = 1
    /\ \E issue \in ReturnedIssues : issue.type = "BROKEN_CHAIN"
    /\ \E issue \in ReturnedIssues : issue.type = "OVERLAP" /\ issue.chain_a # issue.chain_b

\* C19: build_chains keeps no state across invocations: a second call on
\* the same ChainBuilder with the same inputs returns the same issues list
\* and the same summary counts (total_issues, issues_by_severity) as the
\* first call, with no issue of an earlier call appearing again
C19_SecondCallSameIssues ==
    Len(bld_returned) = 2 =>
        /\ bld_returned[2].issues = bld_returned[1].issues
        /\ bld_returned[2].summary.total_issues = bld_returned[1].summary.total_issues
        /\ bld_returned[2].summary.issues_by_severity
              = bld_returned[1].summary.issues_by_severity

\* the OVERLAP issues the first call returned for a pair of documents
OverlapIssues(doc_a, doc_b) ==
    SelectSeq(bld_returned[1].issues,
              LAMBDA issue : issue.type = "OVERLAP" /\ issue.doc_a = doc_a /\ issue.doc_b = doc_b)

\* the two documents of a relationship are listed by two different chains
InDifferentChains(rel) ==
    \E a, b \in ChainIds : a # b /\ ListedIn(a, rel.doc_a) /\ ListedIn(b, rel.doc_b)

\* C7: build_chains emits exactly one CRITICAL OVERLAP issue, citing both
\* document ids and both chain ids, for every PARTIAL_OVERLAP relationship
\* whose two documents belong to two different chains, and no OVERLAP
\* issue for any other relationship
C7_OverlapPerCrossChainPair ==
    Len(bld_returned) >= 1 =>
        \A k \in 1..Len(chn_data.relationships) :
            IF chn_data.relationships[k].relationship = "PARTIAL_OVERLAP"
               /\ InDifferentChains(chn_data.relationships[k])
            THEN /\ Len(OverlapIssues(chn_data.relationships[k].doc_a,
                                      chn_data.relationships[k].doc_b)) = 1
                 /\ \A issue \in ReturnedIssues :
                       (/\ issue.type = "OVERLAP"
                        /\ issue.doc_a = chn_data.relationships[k].doc_a
                        /\ issue.doc_b = chn_data.relationships[k].doc_b)
                       => /\ issue.severity = "CRITICAL"
                          /\ issue.chain_a # issue.chain_b
                          /\ ListedIn(issue.chain_a, issue.doc_a)
                          /\ ListedIn(issue.chain_b, issue.doc_b)
            ELSE OverlapIssues(chn_data.relationships[k].doc_a,
                               chn_data.relationships[k].doc_b) = <<>>

\* the deeds of a chain in its order, a deed that duplicates the deed
\* before it left out
CollapsedDeeds(deeds) ==
    SelectSeq(deeds, LAMBDA x :
        \A k \in 2..Len(deeds) :
            deeds[k] = x => ~_is_duplicate_deed(chn_documents[deeds[k - 1]], chn_documents[x]))

\* no grantee name of the earlier deed matches a grantor name of the later
NoNameMatches(earlier, later) ==
    \A g \in 1..Len(chn_documents[earlier].to) : \A h \in 1..Len(chn_documents[later].from) :
        ~NamesMatch(chn_documents[earlier].to[g], chn_documents[later].from[h])

BrokenBetween(chain, earlier, later) ==
    \E k \in 1..Len(chain.issues) :
        /\ chain.issues[k].type = "BROKEN_CHAIN" /\ chain.issues[k].severity = "CRITICAL"
        /\ chain.issues[k].doc_a = earlier /\ chain.issues[k].doc_b = later

ContinuityVerified(chain, deeds) ==
    /\ \A i \in 1..(Len(deeds) - 1) :
          BrokenBetween(chain, deeds[i], deeds[i + 1]) <=> NoNameMatches(deeds[i], deeds[i + 1])
    /\ chain.verified <=> \A i \in 1..(Len(deeds) - 1) : ~NoNameMatches(deeds[i], deeds[i + 1])

\* C6: in each chain, after exact duplicate deeds (same recording locator,
\* or same date and parties) are collapsed, a CRITICAL BROKEN_CHAIN issue
\* naming both document ids is emitted for a consecutive pair of deeds
\* exactly when no grantee name of the earlier deed matches any grantor
\* name of the later deed, and the chain's verified flag is false exactly
\* when at least one such pair exists
C6_BrokenExactlyWhenNoMatch ==
    Len(bld_returned) >= 1 =>
        \A c \in 1..Len(bld_returned[1].chains) :
            ContinuityVerified(bld_returned[1].chains[c],
                               CollapsedDeeds(Deeds(chn_documents, bld_returned[1].chains[c].documents)))

-----------------------------------------------------------------------------
(* Detailed extraction: TitleAbstractor.process_pdf, pass 2, and           *)
(* _extract_document_detail (src/src/abstractor.py).  The model's inputs   *)
(* are the inventory pass 1 returned and the outcome of each call of       *)
(* gemini.process_file followed by _extract_json.                          *)

MaxEntries == 2

max_retries == 3

str_Document == <<"D","o","c","u","m","e","n","t">>

\* a value of the inventory's JSON: a string, null, or a key left out
JsonString(s) == [kind |-> "string", value |-> s]
JsonNull == [kind |-> "null", value |-> <<>>]
JsonAbsent == [kind |-> "absent", value |-> <<>>]

\* doc_info['pages']: an object with start and end, or null
PagesValues ==
    { [kind |-> "object", start |-> 1, end |-> 2], [kind |-> "null", start |-> 0, end |-> 0] }

DocInfos ==
    [type : {JsonString(str_Deed), JsonString(str_Mortgage), JsonNull, JsonAbsent}, pages : PagesValues]

\* dict.get(key, default): the default only where the key is left out
Get(value, default) == IF value.kind = "absent" THEN JsonString(default) ELSE value

\* a document object of a response, and a string in its place
ResponseDocument(document_type) ==
    [kind |-> "object", documentType |-> document_type, confidence |-> 90, flags |-> <<>>]
ResponseText == [kind |-> "string", documentType |-> <<>>, confidence |-> 0, flags |-> <<>>]

\* what one attempt receives: process_file raises, the text holds no JSON
\* (_extract_json raises ValueError), or the parsed object with its
\* 'documents' list (empty where the key is left out) and its own
\* 'documentType' (has_type)
Response(outcome, docs, has_type, document_type) ==
    [outcome |-> outcome, documents |-> docs, has_type |-> has_type, documentType |-> document_type]

Responses ==
    { Response("api_error", <<>>, FALSE, <<>>),
      Response("no_json", <<>>, FALSE, <<>>),
      Response("object", <<>>, FALSE, <<>>),
      Response("object", <<ResponseText>>, FALSE, <<>>) }
    \cup { Response("object", <<>>, TRUE, t) : t \in {str_Deed, str_Mortgage} }
    \cup { Response("object", <<ResponseDocument(t)>>, FALSE, <<>>) : t \in {str_Deed, str_Mortgage} }

\* lines 259-264: the attempt returns a value
Returns(response) ==
    response.outcome = "object" /\ (response.documents # <<>> \/ response.has_type)

\* lines 259-262: result['documents'][0], else result itself
Returned(response) ==
    IF response.documents # <<>> THEN response.documents[1]
    ELSE ResponseDocument(response.documentType)

\* lines 273-297: the minimal document returned on the final failure
Placeholder(doc_type) ==
    [kind |-> "object", documentType |-> doc_type, confidence |-> 0, flags |-> <<"extraction_failed">>]

\* line 74: doc_detail['pageLocation'] = pages, on a dict
WithPageLocation(doc_detail, pages) ==
    [documentType |-> doc_detail.documentType, confidence |-> doc_detail.confidence,
     flags |-> doc_detail.flags, pageLocation |-> pages]

\* lines 70-81: the returned value is appended with its page location; a
\* value that is not a dict raises TypeError on line 74 and the handler of
\* lines 78-81 goes on to the next entry
AppendDetail(docs, doc_detail, pages) ==
    IF doc_detail.kind = "object" THEN Append(docs, WithPageLocation(doc_detail, pages))
    ELSE docs

InitExtract ==
    /\ ext_inventory \in SeqsUpTo(DocInfos, MaxEntries)
    /\ all_documents = <<>>
    /\ ext_i = 0
    /\ ext_attempt = 0
    /\ ext_responses = <<>>
    /\ ext_pc = "inventory"
    /\ Idle("extract")

\* lines 55-59: the inventory is displayed; pages.get on a null 'pages'
\* raises AttributeError, and the handler of lines 168-170 re-raises it
DisplayInventory ==
    /\ ext_pc = "inventory"
    /\ ext_pc' = IF \E k \in 1..Len(ext_inventory) : ext_inventory[k].pages.kind = "null"
                 THEN "raised" ELSE "extract"
    /\ ext_i' = 1
    /\ UNCHANGED <<ext_inventory, all_documents, ext_attempt, ext_responses>>
    /\ UNCHANGED <<invVars, cmpVars, docVars, mrgVars, anaVars, chnVars, nmVars, dkVars>>

\* lines 65-71 and 220-246: the next entry is handed to
\* _extract_document_detail, which builds the prompt before its first
\* attempt; doc_type.lower() on a null 'type' raises AttributeError
\* outside the retry loop, and the handler of lines 78-81 goes on to the
\* next entry
ExtractDocumentDetail ==
    /\ ext_pc = "extract"
    /\ ext_i <= Len(ext_inventory)
    /\ ext_responses' = Append(ext_responses, <<>>)
    /\ IF Get(ext_inventory[ext_i].type, str_Document).kind = "null"
       THEN ext_i' = ext_i + 1 /\ ext_pc' = "extract"
       ELSE ext_i' = ext_i /\ ext_pc' = "attempt"
    /\ ext_attempt' = 0
    /\ UNCHANGED <<ext_inventory, all_documents>>
    /\ UNCHANGED <<invVars, cmpVars, docVars, mrgVars, anaVars, chnVars, nmVars, dkVars>>

\* lines 249-297 and 74-81: one pass of the retry loop.  A returned value
\* ends the call; a failure is retried while attempt < max_retries - 1 and
\* ends the call with the placeholder otherwise
Attempt ==
    /\ ext_pc = "attempt"
    /\ \E response \in Responses :
        /\ ext_responses' = [ext_responses EXCEPT ![ext_i] = Append(@, response)]
        /\ IF Returns(response)
           THEN /\ all_documents' = AppendDetail(all_documents, Returned(response), ext_inventory[ext_i].pages)
                /\ ext_i' = ext_i + 1 /\ ext_attempt' = 0 /\ ext_pc' = "extract"
           ELSE IF ext_attempt < max_retries - 1
           THEN /\ ext_attempt' = ext_attempt + 1
                /\ UNCHANGED <<all_documents, ext_i, ext_pc>>
           ELSE /\ all_documents' =
                       AppendDetail(all_documents,
                                    Placeholder(Get(ext_inventory[ext_i].type, str_Document).value),
                                    ext_inventory[ext_i].pages)
                /\ ext_i' = ext_i + 1 /\ ext_attempt' = 0 /\ ext_pc' = "extract"
    /\ UNCHANGED ext_inventory
    /\ UNCHANGED <<invVars, cmpVars, docVars, mrgVars, anaVars, chnVars, nmVars, dkVars>>

\* lines 83-88: the loop is over, the upload is deleted and all_documents
\* goes to the chain analysis
FinishExtraction ==
    /\ ext_pc = "extract"
    /\ ext_i > Len(ext_inventory)
    /\ ext_pc' = "done"
    /\ UNCHANGED <<ext_inventory, all_documents, ext_i, ext_attempt, ext_responses>>
    /\ UNCHANGED <<invVars, cmpVars, docVars, mrgVars, anaVars, chnVars, nmVars, dkVars>>

NextExtract == DisplayInventory \/ ExtractDocumentDetail \/ Attempt \/ FinishExtraction

SpecExtract == InitExtract /\ [][NextExtract]_vars

\* the attempts made for the k-th inventory entry, and the last of them
AttemptsFor(k) == ext_responses[k]
LastAttempt(k) == AttemptsFor(k)[Len(AttemptsFor(k))]

\* the record the claim expects for the k-th entry once its call is over
ExpectedRecord(k) ==
    IF Returns(LastAttempt(k))
    THEN WithPageLocation(Returned(LastAttempt(k)), ext_inventory[k].pages)
    ELSE WithPageLocation(Placeholder(Get(ext_inventory[k].type, str_Document).value),
                          ext_inventory[k].pages)

\* C20: per-document extraction is a bounded retry: _extract_document_detail
\* makes at most 3 attempts, returns the record of the first successful
\* attempt without further attempts, and after 3 failed attempts returns a
\* placeholder flagged extraction_failed instead of raising, so the
\* extraction loop yields exactly one record per inventory entry and never
\* aborts the batch
C20_BoundedRetryOneRecordEach ==
    /\ ext_pc # "raised"
    /\ \A k \in 1..Len(ext_responses) :
          /\ Len(AttemptsFor(k)) <= 3
          /\ \A n \in 1..(Len(AttemptsFor(k)) - 1) : ~Returns(AttemptsFor(k)[n])
    /\ ext_pc = "done" =>
          /\ Len(all_documents) = Len(ext_inventory)
          /\ \A k \in 1..Len(ext_inventory) :
                /\ Len(AttemptsFor(k)) >= 1
                /\ ~Returns(LastAttempt(k)) =>
                      /\ Len(AttemptsFor(k)) = 3
                      /\ all_documents[k].flags = <<"extraction_failed">>
                /\ all_documents[k] = ExpectedRecord(k)

-----------------------------------------------------------------------------
(* Chain seeding, orphans and disjointness of the returned chains *)

SameRelationships ==
    {chn_data.relationships[k] : k \in {n \in 1..Len(chn_data.relationships) :
                                           chn_data.relationships[n].relationship = "SAME"}}

\* C21: for every pair of documents whose relationship is SAME, the chains
\* returned by analyze_all_documents include a chain whose document_ids
\* contain both documents
C21_SamePairsShareChain ==
    chn_pc = "analyzed" =>
        \A rel \in SameRelationships :
            \E c \in ChainIds : ListedIn(c, rel.doc_a) /\ ListedIn(c, rel.doc_b)

\* a SAME pair has joined a chain an earlier pair started
C21_Witness ==
    /\ chn_pc = "analyzed"
    /\ \E rel \in SameRelationships :
          \E c \in ChainIds :
              /\ ListedIn(c, rel.doc_a) /\ ListedIn(c, rel.doc_b)
              /\ Len(ChainWithId(c).document_ids) >= 3

-----------------------------------------------------------------------------
(* Name matching on its own: _normalize_name and _names_match as          *)
(* _verify_party_connections calls them on a grantee and a grantor         *)

str_Mary_Smith == <<"M", "a", "r", "y", " ", "S", "m", "i", "t", "h">>
str_Smith == <<"S", "m", "i", "t", "h">>
str_John_A_Smith == <<"J", "o", "h", "n", " ", "A", ".", " ", "S", "m", "i", "t", "h">>

MatchInputs == PartyNames \cup {str_Mary_Smith, str_Smith, str_John_A_Smith}

InitNames ==
    /\ nm_name1 \in MatchInputs
    /\ nm_name2 \in MatchInputs
    /\ nm_result = FALSE
    /\ nm_pc = "start"
    /\ Idle("names")

\* chain_builder.py lines 115-122: both names are normalized, then matched
NamesMatchCall ==
    /\ nm_pc = "start"
    /\ nm_result' = _names_match(_normalize_name(nm_name1), _normalize_name(nm_name2))
    /\ nm_pc' = "done"
    /\ UNCHANGED <<nm_name1, nm_name2>>
    /\ UNCHANGED <<invVars, cmpVars, docVars, mrgVars, anaVars, chnVars, extVars, dkVars>>

NextNames == NamesMatchCall

SpecNames == InitNames /\ [][NextNames]_vars

\* the words of the two normalized names
Words1 == Split(_normalize_name(nm_name1))
Words2 == Split(_normalize_name(nm_name2))

\* two different normalized names, neither of them corporate
PersonalNames ==
    /\ _normalize_name(nm_name1) # _normalize_name(nm_name2)
    /\ ~IsCorporate(_normalize_name(nm_name1))
    /\ ~IsCorporate(_normalize_name(nm_name2))

\* C22: two different normalized non-corporate names match only if their
\* last tokens are identical and, when both names have a first token
\* besides the last, the first tokens are identical or one is a single
\* initial that prefixes the other; names with equal last tokens but
\* different full first tokens do not match
C22_PersonalNamesMatchOnFirstAndLast ==
    nm_pc = "done" /\ PersonalNames /\ nm_result =>
        /\ Words1 # <<>> /\ Words2 # <<>>
        /\ Words1[Len(Words1)] = Words2[Len(Words2)]
        /\ Len(Words1) >= 2 /\ Len(Words2) >= 2 =>
              \/ Words1[1] = Words2[1]
              \/ Len(Words1[1]) = 1 /\ Words2[1][1] = Words1[1][1]
              \/ Len(Words2[1]) = 1 /\ Words1[1][1] = Words2[1][1]

\* the document has a SAME relationship with another document
HasSame(doc_id) == \E rel \in SameRelationships : rel.doc_a = doc_id \/ rel.doc_b = doc_id

\* the returned chains that list a document
ChainsListing(doc_id) == {c \in ChainIds : ListedIn(c, doc_id)}

\* documentType contains 'deed' in any case
TypeHasDeed(doc_id) == Contains(Lower(chn_documents[doc_id].documentType), kw_deed)

\* the documents some chain lists
ListedDocuments == {doc_id \in 1..Len(chn_documents) : ChainsListing(doc_id) # {}}

\* C27: the chains returned by analyze_all_documents are pairwise disjoint:
\* every document id occurs in the document_ids of at most one chain, so
\* the summary's total_documents never counts a document twice
C27_ChainsDisjoint ==
    /\ chn_pc = "analyzed" =>
          \A doc_id \in 1..Len(chn_documents) : Cardinality(ChainsListing(doc_id)) <= 1
    /\ \A b \in 1..Len(bld_returned) :
          bld_returned[b].summary.total_documents = Cardinality(ListedDocuments)

\* the deeds among the documents of a returned chain
DeedsOf(chain) == Deeds(chn_documents, chain.documents)

HasBrokenChain(chain) ==
    \E k \in 1..Len(chain.issues) : chain.issues[k].type = "BROKEN_CHAIN"

\* C30: after build_chains, for every chain: verified is false if and only
\* if the chain's own issues list contains at least one BROKEN_CHAIN issue,
\* every issue in a chain's issues list also occurs in the global issues
\* list with that chain's chain_id, and a chain with fewer than two deeds
\* is verified with an empty issues list
C30_VerifiedMeansNoBrokenChain ==
    \A b \in 1..Len(bld_returned) :
        \A c \in 1..Len(bld_returned[b].chains) :
            /\ ~bld_returned[b].chains[c].verified <=> HasBrokenChain(bld_returned[b].chains[c])
            /\ \A k \in 1..Len(bld_returned[b].chains[c].issues) :
                  /\ bld_returned[b].chains[c].issues[k].chain_id
                        = bld_returned[b].chains[c].chain_id
                  /\ \E g \in 1..Len(bld_returned[b].issues) :
                        bld_returned[b].issues[g] = bld_returned[b].chains[c].issues[k]
            /\ Len(DeedsOf(bld_returned[b].chains[c])) < 2 =>
                  /\ bld_returned[b].chains[c].verified
                  /\ bld_returned[b].chains[c].issues = <<>>

\* one call returned a chain of one deed, verified, next to a chain whose
\* deeds do not connect
C30_Witness ==
    /\ Len(bld_returned) >= 1
    /\ \E c, d \in 1..Len(bld_returned[1].chains) :
          /\ Len(DeedsOf(bld_returned[1].chains[c])) = 1
          /\ bld_returned[1].chains[c].verified
          /\ Len(DeedsOf(bld_returned[1].chains[d])) >= 2
          /\ ~bld_returned[1].chains[d].verified
          /\ HasBrokenChain(bld_returned[1].chains[d])

\* C23: a document that has no SAME relationship with any other document
\* forms a singleton chain if its documentType contains 'deed'
\* (case-insensitive) and belongs to no chain otherwise; consequently every
\* deed belongs to at least one chain
C23_OrphanDeedsAlone ==
    chn_pc = "analyzed" =>
        \A d \in 1..Len(chn_documents) :
            /\ ~HasSame(d) =>
                  IF TypeHasDeed(d)
                  THEN \E c \in ChainIds :
                          ChainsListing(d) = {c} /\ ChainWithId(c).document_ids = <<d>>
                  ELSE ChainsListing(d) = {}
            /\ TypeHasDeed(d) => ChainsListing(d) # {}

\* an orphan deed and an orphan mortgage beside a chain of two documents
C23_Witness ==
    /\ chn_pc = "analyzed"
    /\ SameRelationships # {}
    /\ \E d \in 1..Len(chn_documents) : ~HasSame(d) /\ TypeHasDeed(d)
    /\ \E d \in 1..Len(chn_documents) : ~HasSame(d) /\ ~TypeHasDeed(d)

-----------------------------------------------------------------------------
(* The hierarchy build_chains returns *)

\* parcels that nest: lots 1 and lots 1 to 3 under one deed reference,
\* lots 1 and 2, lots 1 and 3, and lots 1 to 4
SplitParcels ==
    {Parsed(<<str_12, str_7>>, <<>>, {1}), Parsed(<<str_12, str_7>>, <<>>, {1, 2, 3}),
     Parsed(<<>>, <<>>, {1, 2}), Parsed(<<>>, <<>>, {1, 3}), Parsed(<<>>, <<>>, {1, 2, 3, 4})}

SplitDocuments == {ParcelDeed(p, str_date_1999) : p \in SplitParcels}

InitSplits ==
    /\ chn_documents \in SeqsUpTo(SplitDocuments, MaxChainDocs)
    /\ chn_data = <<>>
    /\ bld_issues = <<>>
    /\ bld_returned = <<>>
    /\ bld_error = ""
    /\ chn_pc = "start"
    /\ Idle("chains")

SpecSplits == InitSplits /\ [][NextChains]_vars

\* the hierarchy and the chains of the first call of build_chains
FirstHierarchy == bld_returned[1].hierarchy
FirstChains == bld_returned[1].chains

\* how often a chain id occurs in a list of hierarchy nodes and below it
RECURSIVE Occurrences(_, _)
Occurrences(nodes, id) ==
    IF nodes = <<>> THEN 0
    ELSE (IF Head(nodes).chain_id = id THEN 1 ELSE 0)
         + Occurrences(Head(nodes).children, id) + Occurrences(Tail(nodes), id)

\* every node of the list is a chain whose parent is parent_id, and so on
\* below it
RECURSIVE NestedUnder(_, _)
NestedUnder(nodes, parent_id) ==
    \A k \in 1..Len(nodes) :
        /\ \E c \in 1..Len(FirstChains) :
              FirstChains[c].chain_id = nodes[k].chain_id /\ FirstChains[c].parent = parent_id
        /\ NestedUnder(nodes[k].children, nodes[k].chain_id)

\* C24: the hierarchy returned by build_chains has as its top-level nodes
\* exactly the chains with no parent, and every chain appears in the
\* hierarchy exactly once, nested under its parent chain
C24_HierarchyHoldsEachChainOnce ==
    Len(bld_returned) >= 1 =>
        /\ \A c \in 1..Len(FirstChains) :
              FirstChains[c].parent = 0 <=>
                  \E k \in 1..Len(FirstHierarchy) : FirstHierarchy[k].chain_id = FirstChains[c].chain_id
        /\ \A c \in 1..Len(FirstChains) : Occurrences(FirstHierarchy, FirstChains[c].chain_id) = 1
        /\ NestedUnder(FirstHierarchy, 0)

\* C25: for every detector output that analyze_all_documents can produce,
\* the recursion of _build_hierarchy_node over children ids reaches a leaf
\* on every path and build_chains returns
C25_HierarchyRecursionEnds == bld_error # "RecursionError"

-----------------------------------------------------------------------------
(* The two date orders: ChainAnalyzer._parse_date and the _date_sort_key  *)
(* of RelationshipDetector and ChainBuilder on the same record dates       *)

DateStrings == RecordDates \cup ChainDates

InitDates ==
    /\ dk_date1 \in DateStrings
    /\ dk_date2 \in DateStrings
    /\ dk_parsed = <<>>
    /\ dk_keys = <<>>
    /\ dk_pc = "start"
    /\ Idle("dates")

\* chain_analyzer.py line 47 and relationship_detector.py line 206 (the
\* same code at chain_builder.py lines 352-374) on both strings
ParseAndKey ==
    /\ dk_pc = "start"
    /\ dk_parsed' = <<_parse_date(dk_date1), _parse_date(dk_date2)>>
    /\ dk_keys' = <<_date_sort_key(dk_date1), _date_sort_key(dk_date2)>>
    /\ dk_pc' = "done"
    /\ UNCHANGED <<dk_date1, dk_date2>>
    /\ UNCHANGED <<invVars, cmpVars, docVars, mrgVars, anaVars, chnVars, extVars, nmVars>>

NextDates == ParseAndKey

SpecDates == InitDates /\ [][NextDates]_vars

\* the analyzer's date d1 is before d2
DateBefore(d1, d2) == ~DateLE(d2, d1)

\* C26: for any two record-date strings that the analyzer parses, the
\* detector/builder sort key orders them the same way the analyzer's parsed
\* dates do, and a string the analyzer cannot parse sorts last
C26_SortKeyFollowsParsedDate ==
    dk_pc = "done" =>
        /\ dk_parsed[1] # <<>> /\ dk_parsed[2] # <<>> =>
              (KeyLess(dk_keys[1], dk_keys[2]) <=> DateBefore(dk_parsed[1], dk_parsed[2]))
        /\ dk_parsed[1] = <<>> => dk_keys[1] = unknown_key

=============================================================================
